---- MODULE Spec2Model ----
(***************************************************************************)
(* State-machine model of brandonlehmann/web3: the multicall aggregator     *)
(* (MulticallProvider), the read-retry wrapper (BaseContract.retryCall),    *)
(* the write wrappers of the token classes, the ERC1155 maximum-id          *)
(* discovery, the owner reads of ERC1155 (balanceOfOwner, ownedTokenIds),   *)
(* ERC777.balanceOfBatch, the metadata methods of ERC1155 and ERC721,       *)
(* ERC721.ownedTokenIds, and of the Web3Controller: load, getChains, the    *)
(* wallet connection (showWeb3Modal, the liveness timer, disconnect, the    *)
(* wallet events) and fetchABI.  Every asynchronous method is cut at its    *)
(* await points: one action per synchronous stretch of code.                *)
(***************************************************************************)
EXTENDS Integers, Sequences, FiniteSets, TLC

VARIABLES
    \* ---- MulticallProvider.aggregate (src/unnamed/part_002) ----
    aggPc,          \* "idle" | "await" | "returned" | "failed"
    calls,          \* the calls argument
    batchSize,      \* the batchSize argument
    callRequests,   \* the encoded requests not yet submitted
    batch,          \* the batch of the submission in flight
    callResult,     \* the results decoded so far
    aggErr,         \* the error aggregate failed with, "" if none
    issued,         \* history: the batch of every submission issued, in order
    answered,       \* history: the number of submissions answered successfully
    attempts,       \* history: the re-attempts of the submission in flight
    \* ---- MulticallProvider.create (src/unnamed/part_002) ----
    createPc,           \* "idle" | "awaitNetwork" | "created" | "failed"
    options,            \* the options argument: [chainId, multicallAddress]
    multicallAddresses, \* the registry: chain id -> address, "" when absent
    netRequests,        \* requests issued to the provider by this create
    provider,           \* the created instance: [chainId, multicallAddress]
    createErr,          \* the error create failed with, "" if none
    \* ---- BaseContract.retryCall (src/src/BaseContract.ts) ----
    retryPc,        \* "idle" | "pending" | "sleeping" | "resolved" | "rejected"
    retryParams,    \* the params of the outermost retryCall
    invocations,    \* history: every invocation of func: [args, mode, err]
    sleeps,         \* history: the backoff delays started
    retryErr,       \* the error retryCall rejected with, <<>> if none
    \* ---- write wrappers of the token classes ----
    writePc,        \* "idle" | "pending" | "resolved" | "rejected"
    writeOp,        \* the wrapper invoked: [class, method]
    writeSubmits,   \* submissions to the contract made by this invocation
    writeErr,       \* the error the wrapper rejected with, <<>> if none
    txCount,        \* transactions the contract has received in all
    \* ---- ERC1155.discoverMaximumId (src/unnamed/part_001) ----
    discPc,         \* "unbound" | "idle" | "awaitMaximumID" | "awaitUri0"
                    \*   | "awaitUri1" | "awaitUriLoop" | "returned"
    possibleMaxId,  \* the argument of the call
    _maximumID,     \* the cached maximum id
    loopI,          \* the loop variable i
    discRet,        \* the value the last call returned
    uriOk,          \* contract state: the ids that answer a uri read
    accessor,       \* contract state: the maximumID() value, NoAccessor if none
    probes,         \* history: the ids probed by the call, in order
    prevRet,        \* history: what the call before returned, -1 if none
    prevArg,        \* history: the argument of the call before
    dirtyPrev,      \* history: the contract changed during the call before
                    \*   or between it and this call
    dirtyCur,       \* history: the contract changed since this call began
    changes,        \* history: the contract changes made in all
    \* ---- ERC1155.balanceOfOwner / ownedTokenIds (src/unnamed/part_001) ----
    ownPc,          \* "unbound" | "idle" | "awaitMaxId" | "awaitAggregate"
                    \*   | "awaitAll" | "forResponse" | "awaitBalanceOf"
                    \*   | "returned" | "failed"
    ownOp,          \* the method running: "balanceOfOwner" | "ownedTokenIds"
    multicallProvider, \* this.contract.multicallProvider is set
    balances,       \* contract state: the owner's balance of every id
    ownArgs,        \* [startId, endId]; endId holds maxId for balanceOfOwner
    ownCalls,       \* the ids of the balanceOf calls built, in order
    response,       \* the balances array (`balances`, `response`)
    scanI,          \* the loop variable (i, tokenId)
    results,        \* the results array of ownedTokenIds
    ownRet,         \* the value balanceOfOwner returned
    \* ---- ERC777.balanceOfBatch (src/src/ERC777.ts) ----
    batchPc,        \* "unbound" | "idle" | "awaitAggregate" | "awaitAll"
                    \*   | "returned" | "failed"
    owners,         \* the owners argument
    erc777Multicall, \* this.contract.multicallProvider is set
    tokenBalances,  \* contract state: every owner's balance
    batchBalances,  \* the balances read so far, by position
    batchResults,   \* the sequence balanceOfBatch returned
    \* ---- metadata / metadataBulk / ownedMetadata (ERC1155, ERC721) ----
    metaPc,         \* "unbound" | "idle" | "awaitFetch" | "awaitFetches"
                    \*   | "awaitOwnedTokenIds" | "awaitUris" | "awaitAll"
                    \*   | "returned" | "failed"
    metaOp,         \* "metadata" | "metadataBulk" | "ownedMetadata"
    metaClass,      \* the wrapper class: "ERC1155" | "ERC721"
    metaMulticall,  \* this.contract.multicallProvider is set
    IPFSGateway,    \* the gateway the wrapper was constructed with
    httpOk,         \* server state: the ids whose fetch response is ok
    tokens,         \* the ids of the tokens being fetched, in order
    settled,        \* the positions whose fetch has been answered
    metaResult,     \* the documents returned
    metaErr,        \* the error the method failed with, "" if none
    \* ---- Web3Controller.load / getChains (src/unnamed/part_006) ----
    Web3ControllerSingleton, \* the instance stored, 0 when undefined
    ChainListCache, \* the chain map: by chain id, the rpc urls
    loadPc,         \* per load call: "idle" | "fetch1" | "resolved1"
                    \*   | "fetch2" | "resolved2" | "returned" | "failed"
    loadOpt,        \* per load call: its options
    loadRet,        \* per load call: the instance it returned
    madeBy,         \* history, per load call: the controllers, providers
                    \*   and chain-list fetches it has made
    lateOf,         \* history, per load call: the instance of the first
                    \*   load completed before the call began, 0 if none
    controllers,    \* history: the controllers constructed in all
    fetches,        \* history: the chain-list fetches issued in all
    completed,      \* history: the instance of the first load completed
    \* ---- Web3Controller connection (src/unnamed/part_006) ----
    modal,          \* "unloaded" | "present" | "absent" (no browser)
    _web3Provider,  \* a Web3 provider is held
    _instance,      \* a wallet instance carries the controller's handlers
    _checkTimer,    \* the timer held, 0 when none was ever made
    liveTimers,     \* the timers made and not destroyed
    timers,         \* the timers made in all
    modalPc,        \* per showWeb3Modal call: "idle" (none pending)
                    \*   | "connecting" | "switching"
    forceNetwork,   \* per showWeb3Modal call pending: its argument
    tickPc,         \* per timer: "idle" | "awaitAddress" (handler in flight)
    emitted,        \* history: the events the last step emitted
    last,           \* history: the last step, see Step
    \* ---- Web3Controller.fetchABI (src/unnamed/part_006) ----
    ls,             \* local storage: by chain id, the ABI text cached for
                    \*   the contract address, "" when none
    abiPc,          \* per fetchABI call: "idle" | "fetching" | "sleeping"
                    \*   | "returned" | "failed"
    abiOptions,     \* per fetchABI call: its options
    abiRet,         \* per fetchABI call: the text it returned
    abiRequests,    \* history, per call: the explorer requests it issued
    abiWrites,      \* history, per call: the texts it stored
    abiAnswer,      \* history, per call: the kind of its last answer
    abiCachedAtStart, \* history, per call: the text cached when it began
    overwrittenBy,  \* history: "none", or the kind of call ("forced" |
                    \*   "unforced") that last replaced a text cached
    explorerRequests,  \* history: the explorer requests issued in all
    \* ---- Web3Controller.getChains (src/unnamed/part_006) ----
    chainsPc,       \* per getChains call: "idle" | "fetching" | "returned"
                    \*   | "failed"
    forceRefresh,   \* per getChains call: its argument
    chainsRet,      \* per getChains call: the map it returned
    chainsRequests, \* history, per call: the requests it issued
    chainsCacheAtStart, \* history, per call: the cache when it began
    chainsJson,     \* history, per call: what its request ended with,
                    \*   not ok before that
    chainsLast,     \* history: the call the last step was of, 0 if none
    cacheBefore,    \* history: the cache before the last step
    listRequests,   \* history: the chain-list requests issued in all
    \* ---- ERC721.ownedTokenIds (src/src/ERC1155.ts) ----
    erc721Pc,       \* "unbound" | "idle" | "balanceOf" | "promises"
                    \*   | "reads" | "returned" | "failed"
    erc721Multicall,  \* contract.multicallProvider is set
    count,          \* balanceOf(owner)
    promises,       \* the promises, each the indexes of its calls
    outer,          \* per promise: its value, <<>> while pending
    settledOrder,   \* history: the promises in the order they settled in
    erc721Ret       \* the ids ownedTokenIds returned

aggVars == <<aggPc, calls, batchSize, callRequests, batch, callResult, aggErr,
             issued, answered, attempts>>
createVars == <<createPc, options, multicallAddresses, netRequests, provider,
                createErr>>
retryVars == <<retryPc, retryParams, invocations, sleeps, retryErr>>
writeVars == <<writePc, writeOp, writeSubmits, writeErr, txCount>>

discVars == <<discPc, possibleMaxId, _maximumID, loopI, discRet, uriOk,
              accessor, probes, prevRet, prevArg, dirtyPrev, dirtyCur, changes>>

ownVars == <<ownPc, ownOp, multicallProvider, balances, ownArgs, ownCalls,
             response, scanI, results, ownRet>>

batchVars == <<batchPc, owners, erc777Multicall, tokenBalances,
               batchBalances, batchResults>>

metaVars == <<metaPc, metaOp, metaClass, metaMulticall, IPFSGateway, httpOk,
              tokens, settled, metaResult, metaErr>>

loadVars == <<Web3ControllerSingleton, ChainListCache, loadPc, loadOpt,
              loadRet, madeBy, lateOf, controllers, fetches, completed>>

connVars == <<modal, _web3Provider, _instance, _checkTimer, liveTimers, timers,
              modalPc, forceNetwork, tickPc, emitted, last>>

abiVars == <<ls, abiPc, abiOptions, abiRet, abiRequests, abiWrites, abiAnswer,
             abiCachedAtStart, overwrittenBy, explorerRequests>>

\* ChainListCache, which getChains reads and writes, is among loadVars;
\* loadOwnVars are the others of them.
loadOwnVars == <<Web3ControllerSingleton, loadPc, loadOpt, loadRet, madeBy,
                 lateOf, controllers, fetches, completed>>

chainsVars == <<chainsPc, forceRefresh, chainsRet, chainsRequests,
                chainsCacheAtStart, chainsJson, chainsLast, cacheBefore,
                listRequests>>

erc721Vars == <<erc721Pc, erc721Multicall, count, promises, outer,
                settledOrder, erc721Ret>>

vars == <<aggVars, createVars, retryVars, writeVars, discVars, ownVars,
          batchVars, metaVars, loadVars, connVars, abiVars, chainsVars,
          erc721Vars>>

otherThanAgg ==
    <<createVars, retryVars, writeVars, discVars, ownVars,
      batchVars, metaVars, loadVars, connVars, abiVars, chainsVars,
      erc721Vars>>
otherThanCreate ==
    <<aggVars, retryVars, writeVars, discVars, ownVars, batchVars,
      metaVars, loadVars, connVars, abiVars, chainsVars,
      erc721Vars>>
otherThanRetry ==
    <<aggVars, createVars, writeVars, discVars, ownVars, batchVars,
      metaVars, loadVars, connVars, abiVars, chainsVars,
      erc721Vars>>
otherThanWrite ==
    <<aggVars, createVars, retryVars, discVars, ownVars, batchVars,
      metaVars, loadVars, connVars, abiVars, chainsVars,
      erc721Vars>>
otherThanDisc ==
    <<aggVars, createVars, retryVars, writeVars, ownVars,
      batchVars, metaVars, loadVars, connVars, abiVars, chainsVars,
      erc721Vars>>
otherThanOwn ==
    <<aggVars, createVars, retryVars, writeVars, discVars,
      batchVars, metaVars, loadVars, connVars, abiVars, chainsVars,
      erc721Vars>>
otherThanBatch ==
    <<aggVars, createVars, retryVars, writeVars, discVars, ownVars,
      metaVars, loadVars, connVars, abiVars, chainsVars,
      erc721Vars>>
otherThanMeta ==
    <<aggVars, createVars, retryVars, writeVars, discVars, ownVars,
      batchVars, loadVars, connVars, abiVars, chainsVars,
      erc721Vars>>
otherThanLoad ==
    <<aggVars, createVars, retryVars, writeVars, discVars, ownVars,
      batchVars, metaVars, connVars, abiVars, chainsVars,
      erc721Vars>>
otherThanConn ==
    <<aggVars, createVars, retryVars, writeVars, discVars, ownVars,
      batchVars, metaVars, loadVars, abiVars, chainsVars,
      erc721Vars>>
otherThanAbi ==
    <<aggVars, createVars, retryVars, writeVars, discVars, ownVars,
      batchVars, metaVars, loadVars, connVars, chainsVars,
      erc721Vars>>
otherThanChains ==
    <<aggVars, createVars, retryVars, writeVars, discVars, ownVars,
      batchVars, metaVars, loadOwnVars, connVars, abiVars,
      erc721Vars>>
otherThanErc721 ==
    <<aggVars, createVars, retryVars, writeVars, discVars, ownVars,
      batchVars, metaVars, loadVars, connVars, abiVars, chainsVars>>

\* ---------------------------------------------------------------- bounds
MaxCalls == 3
MaxBatch == 3
MaxRetries == 1

Min(a, b) == IF a < b THEN a ELSE b
Max(a, b) == IF a > b THEN a ELSE b

\* ------------------------------------------------------------------------
\* Calls (IContractCall) and the ABI codec
\* ------------------------------------------------------------------------

\* The calls the model draws from: three well-formed calls whose output
\* signatures differ (one scalar uint256, one scalar string, one tuple), and
\* one call whose parameter count does not match its inputs.
CallSet ==
    { [contract |-> "0xToken", name |-> "balanceOf",
       inputs |-> <<"address">>, params |-> <<"0xA">>,
       outputs |-> <<"uint256">>],
      [contract |-> "0xNft", name |-> "tokenURI",
       inputs |-> <<"uint256">>, params |-> <<"1">>,
       outputs |-> <<"string">>],
      [contract |-> "0xNft", name |-> "royaltyInfo",
       inputs |-> <<"uint256", "uint256">>, params |-> <<"1", "10">>,
       outputs |-> <<"address", "uint256">>],
      [contract |-> "0xToken", name |-> "balanceOf",
       inputs |-> <<"address">>, params |-> <<>>,
       outputs |-> <<"uint256">>] }

\* An encoder that accepts every call.
EncodeOkAlways(elem) == TRUE

\* ABI.encode(name, inputs, params) fails on a wrong parameter count.
EncodeOk(elem) == Len(elem.inputs) = Len(elem.params)

\* ABI.encode(name, inputs, params): the call data, a function of its
\* arguments alone.
Encode(name, inputs, params) ==
    [selector |-> name, types |-> inputs, args |-> params]

\* The element calls.map builds for one call: {target, callData}.
CallRequest(elem) ==
    [target |-> elem.contract,
     callData |-> Encode(elem.name, elem.inputs, elem.params)]

\* The output signature the contract's function really has.
FunctionOutputs(selector) ==
    CASE selector = "balanceOf" -> <<"uint256">>
      [] selector = "tokenURI" -> <<"string">>
      [] selector = "royaltyInfo" -> <<"address", "uint256">>

\* The aggregator contract executes one request: the raw return data is the
\* target function's outputs, ABI-encoded in the function's own signature.
Execute(req) ==
    [of |-> req, types |-> FunctionOutputs(req.callData.selector)]

\* returnData of the aggregator's response: one element per submitted call,
\* in the order of the batch.
ReturnData(b) == [i \in 1..Len(b) |-> Execute(b[i])]

\* ABI.decode(outputs, returnData): one value per declared output, read from
\* returnData under the layout `outputs` names.  A value remembers the type
\* it was read as and the data it was read from.
Decode(outputs, returnData) ==
    [j \in 1..Len(outputs) |->
        [type |-> outputs[j], slot |-> j, data |-> returnData.of,
         layout |-> outputs]]

\* Whether returnData was encoded under the signature it is decoded against.
Matches(outputs, returnData) == outputs = returnData.types

\* const result = outputs.length === 1 ? params[0] : params
Unwrap(outputs, params) ==
    IF Len(outputs) = 1
    THEN [scalar |-> TRUE, values |-> <<params[1]>>]
    ELSE [scalar |-> FALSE, values |-> params]

\* ------------------------------------------------------------------------
\* Array.prototype.slice
\* ------------------------------------------------------------------------
SliceIndex(k, len) == IF k < 0 THEN Max(len + k, 0) ELSE Min(k, len)

\* s.slice(start, end)
Slice(s, start, end) ==
    LET f == SliceIndex(start, Len(s))
        t == SliceIndex(end, Len(s))
    IN  IF t <= f THEN <<>> ELSE SubSeq(s, f + 1, t)

\* s.slice(start)
SliceFrom(s, start) == Slice(s, start, Len(s))

\* ------------------------------------------------------------------------
\* MulticallProvider.aggregate
\* ------------------------------------------------------------------------
CallLists == UNION { [1..n -> CallSet] : n \in 0..MaxCalls }
BatchSizes == 0..MaxBatch

\* The loop can run at most once per call when batchSize >= 1; one more
\* submission is allowed so that a loop that makes no progress shows.
MaxSubmissions == MaxCalls + 1

\* A batch cut one element short.
BatchOfOneLess(reqs, size) == Slice(reqs, 0, size - 1)

\* const batch = callRequests.slice(0, batchSize)
BatchOf(reqs, size) == Slice(reqs, 0, size)

\* A rest that skips one element more than the batch took.
RestOfOneMore(reqs, size) == SliceFrom(reqs, size + 1)

\* callRequests = callRequests.slice(batchSize)
RestOf(reqs, size) == SliceFrom(reqs, size)

\* The for loop over one batch: element i of the batch is decoded against
\* calls[i].outputs, i being the index inside the batch.
DecodeBatch(b, returnData) ==
    [i \in 1..Len(b) |->
        Unwrap(calls[i].outputs, Decode(calls[i].outputs, returnData[i]))]

\* The indices of a batch whose return data was encoded under another
\* signature than the one the loop decodes it against.
Mismatched(b, returnData) ==
    { i \in 1..Len(b) : ~Matches(calls[i].outputs, returnData[i]) }

\* The head of the while loop, reached with `reqs` left and `res` decoded:
\* return when nothing is left, else slice the next batch off and submit it.
LoopHead(reqs, res, sent) ==
    IF reqs = <<>>
    THEN /\ aggPc' = "returned"
         /\ callRequests' = reqs
         /\ batch' = <<>>
         /\ callResult' = res
         /\ issued' = sent
    ELSE /\ Len(sent) < MaxSubmissions
         /\ aggPc' = "await"
         /\ batch' = BatchOf(reqs, batchSize')
         /\ callRequests' = RestOf(reqs, batchSize')
         /\ callResult' = res
         /\ issued' = Append(sent, BatchOf(reqs, batchSize'))

\* aggregate(calls, batchSize) up to its first await: encode every call,
\* then enter the loop.
Aggregate(cs, size) ==
    /\ aggPc = "idle"
    /\ UNCHANGED otherThanAgg
    /\ calls' = cs
    /\ batchSize' = size
    /\ answered' = 0
    /\ attempts' = 0
    /\ IF \E i \in 1..Len(cs) : ~EncodeOk(cs[i])
       THEN /\ aggPc' = "failed"
            /\ aggErr' = "EncodeError"
            /\ callRequests' = <<>>
            /\ batch' = <<>>
            /\ callResult' = <<>>
            /\ issued' = <<>>
       ELSE /\ aggErr' = ""
            /\ LoopHead([i \in 1..Len(cs) |-> CallRequest(cs[i])], <<>>, <<>>)

\* The submission in flight is answered: decode the batch, push the results
\* and go round the loop.  Data decoded against another signature than its
\* own either fails to decode or yields values read under the wrong layout.
AggregateResponse ==
    /\ aggPc = "await"
    /\ UNCHANGED otherThanAgg
    /\ answered' = answered + 1
    /\ attempts' = 0
    /\ UNCHANGED <<calls, batchSize>>
    /\ \E rejects \in BOOLEAN :
         IF rejects /\ Mismatched(batch, ReturnData(batch)) # {}
         THEN /\ aggPc' = "failed"
              /\ aggErr' = "DecodeError"
              /\ UNCHANGED <<callRequests, batch, callResult, issued>>
         ELSE /\ aggErr' = aggErr
              /\ LoopHead(callRequests,
                          callResult \o DecodeBatch(batch, ReturnData(batch)),
                          issued)

\* A revert that is passed over: the loop goes on with the next batch.
AggregateRevertPassedOver ==
    /\ aggPc = "await"
    /\ UNCHANGED otherThanAgg
    /\ aggErr' = "call revert exception"
    /\ UNCHANGED <<calls, batchSize, answered, attempts>>
    /\ LoopHead(callRequests, callResult, issued)

\* The submission in flight fails with a revert: the retry wrapper rethrows
\* and aggregate fails.
AggregateRevert ==
    /\ aggPc = "await"
    /\ UNCHANGED otherThanAgg
    /\ aggPc' = "failed"
    /\ aggErr' = "call revert exception"
    /\ UNCHANGED <<calls, batchSize, callRequests, batch, callResult, issued,
                   answered, attempts>>

\* The submission in flight fails with a transient error: the retry wrapper
\* waits and submits again.
AggregateRetry ==
    /\ aggPc = "await"
    /\ UNCHANGED otherThanAgg
    /\ attempts < MaxRetries
    /\ attempts' = attempts + 1
    /\ UNCHANGED <<aggPc, calls, batchSize, callRequests, batch, callResult,
                   aggErr, issued, answered>>

AggInit ==
    /\ aggPc = "idle"
    /\ calls = <<>>
    /\ batchSize = 0
    /\ callRequests = <<>>
    /\ batch = <<>>
    /\ callResult = <<>>
    /\ aggErr = ""
    /\ issued = <<>>
    /\ answered = 0
    /\ attempts = 0

AggNext ==
    \/ \E cs \in CallLists, size \in BatchSizes : Aggregate(cs, size)
    \/ AggregateResponse
    \/ AggregateRevert
    \/ AggregateRetry

\* ------------------------------------------------------------------------
\* MulticallProvider.create and its constructor
\* ------------------------------------------------------------------------

\* Chain ids: two with a registered aggregator, one without.  Chain id 0
\* stands for an options object without chainId (0 and undefined are both
\* falsy in `!options.chainId`).
ChainIds == {1, 250, 999}
OptionChainIds == ChainIds \cup {0}
Addresses == {"", "0xCustom"}

\* The registry as the module is loaded.
RegisteredAtLoad ==
    [c \in ChainIds |->
        CASE c = 1 -> "0xMulticall1"
          [] c = 250 -> "0xMulticall250"
          [] OTHER -> ""]

\* A test that looks the chain id up whatever the options say.
ChainIdMissingAlways(opts) == TRUE

\* if (!options.chainId)
ChainIdMissing(opts) == opts.chainId = 0

\* new MulticallProvider(provider, chainId, multicallAddress): issues no
\* request; throws when neither the argument nor the registry gives an
\* address.
Constructor(chainId, multicallAddress) ==
    IF multicallAddress = "" /\ multicallAddresses[chainId] = ""
    THEN /\ createPc' = "failed"
         /\ createErr' = "Unknown multicall address"
         /\ provider' = [chainId |-> 0, multicallAddress |-> ""]
    ELSE /\ createPc' = "created"
         /\ createErr' = ""
         /\ provider' =
              [chainId |-> chainId,
               multicallAddress |->
                  IF multicallAddress = "" THEN multicallAddresses[chainId]
                  ELSE multicallAddress]

\* MulticallProvider.create(provider, options) up to its first await.
Create(opts) ==
    /\ createPc # "awaitNetwork"
    /\ UNCHANGED otherThanCreate
    /\ options' = opts
    /\ UNCHANGED multicallAddresses
    /\ IF ChainIdMissing(opts)
       THEN /\ netRequests' = 1
            /\ createPc' = "awaitNetwork"
            /\ createErr' = ""
            /\ provider' = [chainId |-> 0, multicallAddress |-> ""]
       ELSE /\ netRequests' = 0
            /\ Constructor(opts.chainId, opts.multicallAddress)

\* provider.getNetwork() answers with the chain id.
GetNetworkAnswered(chainId) ==
    /\ createPc = "awaitNetwork"
    /\ UNCHANGED otherThanCreate
    /\ UNCHANGED <<options, multicallAddresses, netRequests>>
    /\ Constructor(chainId, options.multicallAddress)

\* provider.getNetwork() fails: create rejects with that failure.
GetNetworkFailed ==
    /\ createPc = "awaitNetwork"
    /\ UNCHANGED otherThanCreate
    /\ createPc' = "failed"
    /\ createErr' = "could not detect network"
    /\ UNCHANGED <<options, multicallAddresses, netRequests, provider>>

\* MulticallProvider.registerMulticallAddress(chainId, multicallAddress)
RegisterMulticallAddress(chainId, multicallAddress) ==
    /\ UNCHANGED otherThanCreate
    /\ multicallAddresses' =
          [multicallAddresses EXCEPT ![chainId] = multicallAddress]
    /\ UNCHANGED <<createPc, options, netRequests, provider, createErr>>

CreateInit ==
    /\ createPc = "idle"
    /\ options = [chainId |-> 0, multicallAddress |-> ""]
    /\ multicallAddresses = RegisteredAtLoad
    /\ netRequests = 0
    /\ provider = [chainId |-> 0, multicallAddress |-> ""]
    /\ createErr = ""

CreateNext ==
    \/ \E c \in OptionChainIds, a \in Addresses :
          Create([chainId |-> c, multicallAddress |-> a])
    \/ \E c \in ChainIds : GetNetworkAnswered(c)
    \/ GetNetworkFailed
    \/ \E c \in ChainIds : RegisterMulticallAddress(c, "0xRegistered")

\* ------------------------------------------------------------------------
\* BaseContract.retryCall
\* ------------------------------------------------------------------------
MaxInvocations == 3

\* Error texts (e.toString()) as the sequences of their words.
RevertText == <<"call", "revert", "exception">>
RevertTextCapitalised == <<"Error:", "CALL", "Revert", "Exception">>
TimeoutText == <<"timeout">>
RevertedText == <<"execution", "reverted">>
ErrorTexts == {RevertText, RevertTextCapitalised, TimeoutText, RevertedText}

\* The parameter lists a read call is made with.
ParamLists == {<<>>, <<"0xOwner">>, <<"0xOwner", "0xSpender">>}

\* String.prototype.toLowerCase, word by word
LowerWord(w) ==
    CASE w = "CALL" -> "call"
      [] w = "Revert" -> "revert"
      [] w = "Exception" -> "exception"
      [] w = "Error:" -> "error:"
      [] OTHER -> w

ToLowerCase(text) == [k \in 1..Len(text) |-> LowerWord(text[k])]

\* String.prototype.includes
Includes(text, part) ==
    \E k \in 0..(Len(text) - Len(part)) :
        SubSeq(text, k + 1, k + Len(part)) = part

\* The marker test without toLowerCase().
IsRevertCaseSensitive(e) == Includes(e, <<"revert", "exception">>)

\* e.toString().toLowerCase().includes('revert exception')
IsRevert(e) == Includes(ToLowerCase(e), <<"revert", "exception">>)

\* The params the recursive call passes on: this.retryCall(func)
RetryParams(params) == <<>>

\* The body of retryCall, entered with the invocations `made` and `slept`
\* delays so far: func(...args) is invoked inside the try.  It either returns
\* a promise, which retryCall returns as it is, or throws synchronously,
\* which the catch block handles: rethrow a revert, else sleep and recurse.
Invoke(args, made, slept) ==
    /\ Len(made) < MaxInvocations
    /\ \/ /\ retryPc' = "pending"
          /\ invocations' =
                Append(made, [args |-> args, mode |-> "promise", err |-> <<>>])
          /\ sleeps' = slept
          /\ retryErr' = <<>>
       \/ \E e \in ErrorTexts :
             /\ invocations' =
                   Append(made, [args |-> args, mode |-> "throw", err |-> e])
             /\ IF IsRevert(e)
                THEN /\ retryPc' = "rejected"
                     /\ retryErr' = e
                     /\ sleeps' = slept
                ELSE /\ retryPc' = "sleeping"
                     /\ sleeps' = slept + 1
                     /\ retryErr' = <<>>

\* retryCall(func, ...params) called from outside
RetryCall(params) ==
    /\ retryPc \in {"idle", "resolved", "rejected"}
    /\ UNCHANGED otherThanRetry
    /\ retryParams' = params
    /\ Invoke(params, <<>>, 0)

\* sleep(1) is over: return this.retryCall(func)
RetryWakeUp ==
    /\ retryPc = "sleeping"
    /\ UNCHANGED otherThanRetry
    /\ UNCHANGED retryParams
    /\ Invoke(RetryParams(retryParams), invocations, sleeps)

\* The promise func returned resolves: so does retryCall's.
RetryResolved ==
    /\ retryPc = "pending"
    /\ UNCHANGED otherThanRetry
    /\ retryPc' = "resolved"
    /\ UNCHANGED <<retryParams, invocations, sleeps, retryErr>>

\* The promise func returned rejects.  It was returned without await, so the
\* rejection does not pass through the catch block: retryCall's promise
\* rejects with it.
RetryRejected(e) ==
    /\ retryPc = "pending"
    /\ UNCHANGED otherThanRetry
    /\ retryPc' = "rejected"
    /\ retryErr' = e
    /\ invocations' =
          [invocations EXCEPT ![Len(invocations)].err = e]
    /\ UNCHANGED <<retryParams, sleeps>>

RetryInit ==
    /\ retryPc = "idle"
    /\ retryParams = <<>>
    /\ invocations = <<>>
    /\ sleeps = 0
    /\ retryErr = <<>>

RetryNext ==
    \/ \E params \in ParamLists : RetryCall(params)
    \/ RetryWakeUp
    \/ RetryResolved
    \/ \E e \in ErrorTexts : RetryRejected(e)

\* ------------------------------------------------------------------------
\* The write wrappers of the token classes
\* ------------------------------------------------------------------------
MaxTx == 2

\* Every state-changing wrapper: ERC777 (src/src/ERC777.ts), ERC20 and ERC721
\* (src/src/ERC1155.ts) and ERC1155 (src/unnamed/part_001).
WriteOps ==
    ({"ERC777"} \X {"approve", "authorizeOperator", "burn", "operatorBurn",
                    "operatorSend", "revokeOperator", "send", "transfer",
                    "transferFrom"})
    \cup ({"ERC20"} \X {"approve", "transfer", "transferFrom"})
    \cup ({"ERC721"} \X {"approve", "safeTransferFrom", "setApprovalForAll",
                         "transferFrom"})
    \cup ({"ERC1155"} \X {"safeBatchTransferFrom", "safeTransferFrom",
                          "setApprovalForAll"})

\* A wrapper is `return this.contract.method(...)`: one submission, whose
\* promise is the wrapper's.
Write(op) ==
    /\ writePc \in {"idle", "resolved", "rejected"}
    /\ txCount < MaxTx
    /\ UNCHANGED otherThanWrite
    /\ writeOp' = op
    /\ writePc' = "pending"
    /\ writeSubmits' = 1
    /\ txCount' = txCount + 1
    /\ writeErr' = <<>>

\* The submission succeeds: the wrapper resolves with the transaction.
WriteResolved ==
    /\ writePc = "pending"
    /\ UNCHANGED otherThanWrite
    /\ writePc' = "resolved"
    /\ UNCHANGED <<writeOp, writeSubmits, writeErr, txCount>>

\* What a wrapper does when its submission fails with e and it had the read
\* path's retry: submit again unless e is a revert.
FailureRetried(e) ==
    IF IsRevert(e) \/ txCount >= MaxTx
    THEN /\ writePc' = "rejected"
         /\ writeErr' = e
         /\ UNCHANGED <<writeOp, writeSubmits, txCount>>
    ELSE /\ writePc' = "pending"
         /\ writeSubmits' = writeSubmits + 1
         /\ txCount' = txCount + 1
         /\ UNCHANGED <<writeOp, writeErr>>

\* What a wrapper does when its submission fails with e: nothing, the
\* rejection is the wrapper's.
FailurePropagated(e) ==
    /\ writePc' = "rejected"
    /\ writeErr' = e
    /\ UNCHANGED <<writeOp, writeSubmits, txCount>>

\* The submission fails with e.
WriteRejected(e) ==
    /\ writePc = "pending"
    /\ UNCHANGED otherThanWrite
    /\ FailurePropagated(e)

WriteInit ==
    /\ writePc = "idle"
    /\ writeOp = <<"", "">>
    /\ writeSubmits = 0
    /\ writeErr = <<>>
    /\ txCount = 0

WriteNext ==
    \/ \E op \in WriteOps : Write(op)
    \/ WriteResolved
    \/ \E e \in ErrorTexts : WriteRejected(e)

\* ------------------------------------------------------------------------
\* ERC1155.discoverMaximumId
\* ------------------------------------------------------------------------
MaxId == 3
MaxChanges == 1

Ids == 0..MaxId
NoAccessor == -1

\* The default of possibleMaxId (2^256 - 1): above every id.
MaxApproval == MaxId + 2
PossibleMaxIds == 0..MaxApproval

\* A loop that starts over from id 0.
LoopStartZero(cached) == 0

\* for (let i = this._maximumID; ...
LoopStart(cached) == cached

\* A return of the loop variable in place of the cache.
ReturnedLoopVariable(cached, i) == i

\* return this._maximumID, at the loop's exit with loop variable i
Returned(cached, i) == cached

\* The head of the for loop, reached with loop variable i and the cache at
\* `cached`: probe uri(i) when i < possibleMaxId, else return the cache.
ForLoop(i, cached) ==
    /\ _maximumID' = cached
    /\ IF i < possibleMaxId
       THEN /\ discPc' = "awaitUriLoop"
            /\ loopI' = i
            /\ probes' = Append(probes, i)
            /\ UNCHANGED discRet
       ELSE /\ discPc' = "returned"
            /\ discRet' = Returned(cached, i)
            /\ UNCHANGED <<loopI, probes>>

\* discoverMaximumId(possibleMaxId) up to its first await: maximumID() is
\* called.
DiscoverMaximumId(arg) ==
    /\ discPc \in {"idle", "returned"}
    /\ UNCHANGED otherThanDisc
    /\ discPc' = "awaitMaximumID"
    /\ possibleMaxId' = arg
    /\ probes' = <<>>
    /\ prevRet' = IF discPc = "returned" THEN discRet ELSE -1
    /\ prevArg' = possibleMaxId
    /\ dirtyPrev' = dirtyCur
    /\ dirtyCur' = FALSE
    /\ UNCHANGED <<_maximumID, loopI, discRet, uriOk, accessor, changes>>

\* A maximumID() answer that is written to the cache as well.
MaximumIDAnsweredAndCached ==
    /\ discPc = "awaitMaximumID"
    /\ accessor # NoAccessor
    /\ UNCHANGED otherThanDisc
    /\ discPc' = "returned"
    /\ discRet' = accessor
    /\ _maximumID' = accessor
    /\ UNCHANGED <<possibleMaxId, loopI, uriOk, accessor, probes,
                   prevRet, prevArg, dirtyPrev, dirtyCur, changes>>

\* maximumID() succeeds: its value is returned.
MaximumIDAnswered ==
    /\ discPc = "awaitMaximumID"
    /\ accessor # NoAccessor
    /\ UNCHANGED otherThanDisc
    /\ discPc' = "returned"
    /\ discRet' = accessor
    /\ UNCHANGED <<possibleMaxId, _maximumID, loopI, uriOk, accessor, probes,
                   prevRet, prevArg, dirtyPrev, dirtyCur, changes>>

\* maximumID() fails: probe uri(0) when nothing is cached, else enter the
\* loop.
MaximumIDFailed ==
    /\ discPc = "awaitMaximumID"
    /\ accessor = NoAccessor
    /\ UNCHANGED otherThanDisc
    /\ IF _maximumID = 0
       THEN /\ discPc' = "awaitUri0"
            /\ probes' = Append(probes, 0)
            /\ UNCHANGED <<_maximumID, loopI, discRet>>
       ELSE ForLoop(LoopStart(_maximumID), _maximumID)
    /\ UNCHANGED <<possibleMaxId, uriOk, accessor, prevRet, prevArg,
                   dirtyPrev, dirtyCur, changes>>

\* uri(0) is answered: on failure probe uri(1), else enter the loop.
Uri0Answered ==
    /\ discPc = "awaitUri0"
    /\ UNCHANGED otherThanDisc
    /\ IF 0 \in uriOk
       THEN ForLoop(LoopStart(_maximumID), _maximumID)
       ELSE /\ discPc' = "awaitUri1"
            /\ probes' = Append(probes, 1)
            /\ UNCHANGED <<_maximumID, loopI, discRet>>
    /\ UNCHANGED <<possibleMaxId, uriOk, accessor, prevRet, prevArg,
                   dirtyPrev, dirtyCur, changes>>

\* uri(1) is answered: on success the cache becomes 1; enter the loop.
Uri1Answered ==
    /\ discPc = "awaitUri1"
    /\ UNCHANGED otherThanDisc
    /\ IF 1 \in uriOk
       THEN ForLoop(LoopStart(1), 1)
       ELSE ForLoop(LoopStart(_maximumID), _maximumID)
    /\ UNCHANGED <<possibleMaxId, uriOk, accessor, prevRet, prevArg,
                   dirtyPrev, dirtyCur, changes>>

\* uri(i) of the loop is answered: on success the cache becomes i and the
\* loop goes on with i + 1, on failure the loop is left.
UriLoopAnswered ==
    /\ discPc = "awaitUriLoop"
    /\ UNCHANGED otherThanDisc
    /\ IF loopI \in uriOk
       THEN ForLoop(loopI + 1, loopI)
       ELSE /\ discPc' = "returned"
            /\ discRet' = Returned(_maximumID, loopI)
            /\ UNCHANGED <<_maximumID, loopI, probes>>
    /\ UNCHANGED <<possibleMaxId, uriOk, accessor, prevRet, prevArg,
                   dirtyPrev, dirtyCur, changes>>

\* The contract changes: an id starts answering uri reads (mint) or stops
\* answering them (burn).
ContractChange(id) ==
    /\ discPc # "unbound"
    /\ changes < MaxChanges
    /\ UNCHANGED otherThanDisc
    /\ uriOk' = IF id \in uriOk THEN uriOk \ {id} ELSE uriOk \cup {id}
    /\ changes' = changes + 1
    /\ dirtyCur' = TRUE
    /\ UNCHANGED <<discPc, possibleMaxId, _maximumID, loopI, discRet,
                   accessor, probes, prevRet, prevArg, dirtyPrev>>

\* The contract changes: its maximumID() starts answering (with maximumId),
\* or starts reverting (NoAccessor).
AccessorChange(maximumId) ==
    /\ discPc # "unbound"
    /\ changes < MaxChanges
    /\ maximumId # accessor
    /\ UNCHANGED otherThanDisc
    /\ accessor' = maximumId
    /\ changes' = changes + 1
    /\ dirtyCur' = TRUE
    /\ UNCHANGED <<discPc, possibleMaxId, _maximumID, loopI, discRet,
                   uriOk, probes, prevRet, prevArg, dirtyPrev>>

\* new ERC1155(contract): the wrapper starts with _maximumID = 0, over a
\* contract in whatever state it is deployed in.
NewERC1155(answering, maximumId) ==
    /\ discPc = "unbound"
    /\ UNCHANGED otherThanDisc
    /\ discPc' = "idle"
    /\ _maximumID' = 0
    /\ uriOk' = answering
    /\ accessor' = maximumId
    /\ UNCHANGED <<possibleMaxId, loopI, discRet, probes, prevRet, prevArg,
                   dirtyPrev, dirtyCur, changes>>

DiscInit ==
    /\ discPc = "unbound"
    /\ possibleMaxId = 0
    /\ _maximumID = 0
    /\ loopI = 0
    /\ discRet = 0
    /\ uriOk = {}
    /\ accessor = NoAccessor
    /\ probes = <<>>
    /\ prevRet = -1
    /\ prevArg = 0
    /\ dirtyPrev = FALSE
    /\ dirtyCur = FALSE
    /\ changes = 0

DiscNext ==
    \/ \E answering \in SUBSET Ids, maximumId \in {NoAccessor, 2} :
          NewERC1155(answering, maximumId)
    \/ \E arg \in PossibleMaxIds : DiscoverMaximumId(arg)
    \/ MaximumIDAnswered
    \/ MaximumIDFailed
    \/ Uri0Answered
    \/ Uri1Answered
    \/ UriLoopAnswered
    \/ \E id \in Ids : ContractChange(id)
    \/ \E maximumId \in {NoAccessor, 2} : AccessorChange(maximumId)


\* ------------------------------------------------------------------------
\* ERC1155.balanceOfOwner and ERC1155.ownedTokenIds
\* ------------------------------------------------------------------------
MaxTokenId == 2
MaxBalance == 2
MaxResponse == 6

\* The token ids the owner's balances are kept for.
TokenIds == 0..MaxTokenId

\* The ids lo, lo + 1, .., hi in ascending order; none when hi < lo.
IdRange(lo, hi) ==
    IF hi < lo THEN <<>> ELSE [k \in 1..(hi - lo + 1) |-> lo + k - 1]

\* let result = 0; for (const balance of balances) result = result.add(balance)
RECURSIVE SumOf(_)
SumOf(s) == IF s = <<>> THEN 0 ELSE s[1] + SumOf(Tail(s))

\* aggregate(calls) over balanceOf(owner, id) calls, one per id of `ids`:
\* one balance per call, in the order of the calls.
AggregateBalances(ids) == [k \in 1..Len(ids) |-> balances[ids[k]]]

\* balanceOfOwner(owner) up to its first await: discoverMaximumId() is called.
BalanceOfOwner ==
    /\ ownPc \in {"idle", "returned", "failed"}
    /\ UNCHANGED otherThanOwn
    /\ ownPc' = "awaitMaxId"
    /\ ownOp' = "balanceOfOwner"
    /\ ownCalls' = <<>>
    /\ response' = <<>>
    /\ results' = <<>>
    /\ scanI' = 0
    /\ ownArgs' = [startId |-> 0, endId |-> 0]
    /\ ownRet' = 0
    /\ UNCHANGED <<multicallProvider, balances>>

\* discoverMaximumId() returns maxId: one balanceOf read per id i with
\* 1 <= i < maxId, through the aggregator when there is one, else as
\* concurrent reads awaited together (-1 marks a read not yet answered).
MaxIdAnswered(maxId) ==
    /\ ownPc = "awaitMaxId"
    /\ UNCHANGED otherThanOwn
    /\ ownArgs' = [startId |-> 1, endId |-> maxId]
    /\ ownCalls' = IdRange(1, maxId - 1)
    /\ IF multicallProvider
       THEN /\ ownPc' = "awaitAggregate"
            /\ UNCHANGED <<response, ownRet>>
       ELSE IF ownCalls' = <<>>
       THEN /\ ownPc' = "returned"
            /\ ownRet' = 0
            /\ UNCHANGED response
       ELSE /\ ownPc' = "awaitAll"
            /\ response' = [k \in 1..Len(ownCalls') |-> -1]
            /\ UNCHANGED ownRet
    /\ UNCHANGED <<ownOp, multicallProvider, balances, scanI, results>>

\* One of the concurrent balanceOf reads is answered; when it was the last,
\* Promise.all resolves and the balances are added up.
BalanceOfAnswered(k) ==
    /\ ownPc = "awaitAll"
    /\ k \in 1..Len(response)
    /\ response[k] = -1
    /\ UNCHANGED otherThanOwn
    /\ response' = [response EXCEPT ![k] = balances[ownCalls[k]]]
    /\ IF \A j \in 1..Len(response') : response'[j] # -1
       THEN /\ ownPc' = "returned"
            /\ ownRet' = SumOf(response')
       ELSE UNCHANGED <<ownPc, ownRet>>
    /\ UNCHANGED <<ownOp, multicallProvider, balances, ownArgs, ownCalls,
                   scanI, results>>

\* ownedTokenIds(owner, startId, endId) up to its first await: with an
\* aggregator one balanceOf call per id of startId..endId is aggregated,
\* without one the ids are read one after the other.
OwnedTokenIds(startId, endId) ==
    /\ ownPc \in {"idle", "returned", "failed"}
    /\ UNCHANGED otherThanOwn
    /\ ownOp' = "ownedTokenIds"
    /\ ownArgs' = [startId |-> startId, endId |-> endId]
    /\ ownCalls' = IF multicallProvider THEN IdRange(startId, endId) ELSE <<>>
    /\ response' = <<>>
    /\ results' = <<>>
    /\ IF multicallProvider
       THEN /\ ownPc' = "awaitAggregate"
            /\ scanI' = 0
       ELSE /\ scanI' = startId
            /\ ownPc' = IF startId <= endId THEN "awaitBalanceOf"
                        ELSE "returned"
    /\ ownRet' = 0
    /\ UNCHANGED <<multicallProvider, balances>>

\* The aggregate call is answered.  balanceOfOwner adds the balances up and
\* returns; ownedTokenIds enters its for loop over the response.
OwnAggregateAnswered ==
    /\ ownPc = "awaitAggregate"
    /\ UNCHANGED otherThanOwn
    /\ response' = AggregateBalances(ownCalls)
    /\ IF ownOp = "balanceOfOwner"
       THEN /\ ownPc' = "returned"
            /\ ownRet' = SumOf(response')
       ELSE /\ ownPc' = "forResponse"
            /\ UNCHANGED ownRet
    /\ UNCHANGED <<ownOp, multicallProvider, balances, ownArgs, ownCalls,
                   scanI, results>>

\* One round of `for (let i = 0; i < response.length; i++)`: a non-zero
\* response[i] pushes startId + i onto response; `return results` when i
\* has reached response.length.
ForResponse ==
    /\ ownPc = "forResponse"
    /\ UNCHANGED otherThanOwn
    /\ IF scanI < Len(response)
       THEN /\ scanI' = scanI + 1
            /\ IF response[scanI + 1] # 0
               THEN /\ Len(response) < MaxResponse
                    /\ response' = Append(response, ownArgs.startId + scanI)
               ELSE UNCHANGED response
            /\ UNCHANGED ownPc
       ELSE /\ ownPc' = "returned"
            /\ UNCHANGED <<scanI, response>>
    /\ UNCHANGED <<ownOp, multicallProvider, balances, ownArgs, ownCalls,
                   results, ownRet>>

\* The balanceOf read of the sequential loop is answered: a non-zero balance
\* pushes tokenId onto results; the loop goes on up to endId.
TokenBalanceAnswered ==
    /\ ownPc = "awaitBalanceOf"
    /\ UNCHANGED otherThanOwn
    /\ results' = IF balances[scanI] # 0 THEN Append(results, scanI)
                  ELSE results
    /\ scanI' = scanI + 1
    /\ ownPc' = IF scanI + 1 <= ownArgs.endId THEN "awaitBalanceOf"
                ELSE "returned"
    /\ UNCHANGED <<ownOp, multicallProvider, balances, ownArgs, ownCalls,
                   response, ownRet>>

\* The read awaited (discoverMaximumId, aggregate or balanceOf) fails: the
\* method fails with its error.
OwnReadFailed ==
    /\ ownPc \in {"awaitMaxId", "awaitAggregate", "awaitAll", "awaitBalanceOf"}
    /\ UNCHANGED otherThanOwn
    /\ ownPc' = "failed"
    /\ UNCHANGED <<ownOp, multicallProvider, balances, ownArgs, ownCalls,
                   response, scanI, results, ownRet>>

\* new ERC1155(contract): the contract holds the owner's balance of every
\* id and comes with or without an aggregator.
NewERC1155Owner(held, aggregator) ==
    /\ ownPc = "unbound"
    /\ UNCHANGED otherThanOwn
    /\ ownPc' = "idle"
    /\ balances' = held
    /\ multicallProvider' = aggregator
    /\ UNCHANGED <<ownOp, ownArgs, ownCalls, response, scanI, results, ownRet>>

OwnInit ==
    /\ ownPc = "unbound"
    /\ ownOp = ""
    /\ multicallProvider = FALSE
    /\ balances = [id \in TokenIds |-> 0]
    /\ ownArgs = [startId |-> 0, endId |-> 0]
    /\ ownCalls = <<>>
    /\ response = <<>>
    /\ scanI = 0
    /\ results = <<>>
    /\ ownRet = 0

OwnNext ==
    \/ \E held \in [TokenIds -> 0..MaxBalance], aggregator \in BOOLEAN :
          NewERC1155Owner(held, aggregator)
    \/ BalanceOfOwner
    \/ \E maxId \in TokenIds : MaxIdAnswered(maxId)
    \/ \E k \in 1..MaxTokenId : BalanceOfAnswered(k)
    \/ \E startId \in TokenIds, endId \in TokenIds : OwnedTokenIds(startId, endId)
    \/ OwnAggregateAnswered
    \/ ForResponse
    \/ TokenBalanceAnswered
    \/ OwnReadFailed


\* ------------------------------------------------------------------------
\* ERC777.balanceOfBatch
\* ------------------------------------------------------------------------
MaxOwners == 3

Owners == {"0xA", "0xB"}
OwnerLists == UNION { [1..n -> Owners] : n \in 0..MaxOwners }

\* An entry that pairs owner i with the first balance read.
EntryOfFirst(os, bs, i) == [owner |-> os[i], balance |-> bs[1]]

\* {owner: owners[i], balance: balances[i]}
Entry(os, bs, i) == [owner |-> os[i], balance |-> bs[i]]

\* balanceOfBatch(owners) up to its first await: with an aggregator one
\* balanceOf call per owner is aggregated, without one a balanceOf read per
\* owner is started and all are awaited together (-1 marks a read not yet
\* answered).
BalanceOfBatch(os) ==
    /\ batchPc \in {"idle", "returned", "failed"}
    /\ UNCHANGED otherThanBatch
    /\ owners' = os
    /\ batchResults' = <<>>
    /\ IF erc777Multicall
       THEN /\ batchPc' = "awaitAggregate"
            /\ batchBalances' = <<>>
       ELSE IF os = <<>>
       THEN /\ batchPc' = "returned"
            /\ batchBalances' = <<>>
       ELSE /\ batchPc' = "awaitAll"
            /\ batchBalances' = [i \in 1..Len(os) |-> -1]
    /\ UNCHANGED <<erc777Multicall, tokenBalances>>

\* The aggregate call is answered with one balance per call, in the order
\* of the calls; the results are built by position.
BatchAggregateAnswered ==
    /\ batchPc = "awaitAggregate"
    /\ UNCHANGED otherThanBatch
    /\ batchPc' = "returned"
    /\ batchBalances' = [i \in 1..Len(owners) |-> tokenBalances[owners[i]]]
    /\ batchResults' =
          [i \in 1..Len(owners) |-> Entry(owners, batchBalances', i)]
    /\ UNCHANGED <<owners, erc777Multicall, tokenBalances>>

\* get(owner) of position i is answered, in whatever order the reads
\* complete; when it was the last, Promise.all resolves with the entries in
\* the order the reads were started.
GetAnswered(i) ==
    /\ batchPc = "awaitAll"
    /\ i \in 1..Len(owners)
    /\ batchBalances[i] = -1
    /\ UNCHANGED otherThanBatch
    /\ batchBalances' =
          [batchBalances EXCEPT ![i] = tokenBalances[owners[i]]]
    /\ IF \A j \in 1..Len(owners) : batchBalances'[j] # -1
       THEN /\ batchPc' = "returned"
            /\ batchResults' =
                  [j \in 1..Len(owners) |-> Entry(owners, batchBalances', j)]
       ELSE UNCHANGED <<batchPc, batchResults>>
    /\ UNCHANGED <<owners, erc777Multicall, tokenBalances>>

\* The aggregate call or one of the reads fails: balanceOfBatch fails.
BatchReadFailed ==
    /\ batchPc \in {"awaitAggregate", "awaitAll"}
    /\ UNCHANGED otherThanBatch
    /\ batchPc' = "failed"
    /\ UNCHANGED <<owners, erc777Multicall, tokenBalances, batchBalances,
                   batchResults>>

\* new ERC777(contract): the contract holds every owner's balance and comes
\* with or without an aggregator.
NewERC777(held, aggregator) ==
    /\ batchPc = "unbound"
    /\ UNCHANGED otherThanBatch
    /\ batchPc' = "idle"
    /\ tokenBalances' = held
    /\ erc777Multicall' = aggregator
    /\ UNCHANGED <<owners, batchBalances, batchResults>>

BatchInit ==
    /\ batchPc = "unbound"
    /\ owners = <<>>
    /\ erc777Multicall = FALSE
    /\ tokenBalances = [o \in Owners |-> 0]
    /\ batchBalances = <<>>
    /\ batchResults = <<>>

BatchNext ==
    \/ \E held \in [Owners -> 0..MaxBalance], aggregator \in BOOLEAN :
          NewERC777(held, aggregator)
    \/ \E os \in OwnerLists : BalanceOfBatch(os)
    \/ BatchAggregateAnswered
    \/ \E i \in 1..MaxOwners : GetAnswered(i)
    \/ BatchReadFailed


\* ------------------------------------------------------------------------
\* metadata, metadataBulk and ownedMetadata of ERC1155 and ERC721
\* ------------------------------------------------------------------------
MaxMetaId == 3

MetaIds == 1..MaxMetaId

\* Token id lists without repetition, in every order.
IdLists ==
    { s \in UNION { [1..n -> MetaIds] : n \in 0..MaxMetaId } :
        \A i, j \in 1..Len(s) : i # j => s[i] # s[j] }

\* The image field of the document served for a token id, as the sequence
\* of its parts: one starting with the ipfs scheme, one without it, one
\* holding it further in, one starting with it and holding it once more.
DocumentImage(id) ==
    CASE id % 4 = 1 -> <<"ipfs://", "Qm123">>
      [] id % 4 = 2 -> <<"https://host/", "a.png">>
      [] id % 4 = 3 -> <<"https://host/?u=", "ipfs://", "Qm3">>
      [] OTHER -> <<"ipfs://", "dir/", "ipfs://", "Qm4">>

Gateways == {"https://cloudflare-ipfs.com/ipfs/", "https://gw/ipfs/"}

\* The address of the bound contract.
ContractAddress == [ERC1155 |-> "0x1155", ERC721 |-> "0x721"]

\* A replace that leaves the text as it is.
ReplaceNothing(text, pattern, replacement) == text

\* text.replace(pattern, replacement) with a string pattern: the first
\* occurrence is replaced, wherever it is.
Replace(text, pattern, replacement) ==
    IF \E k \in 1..Len(text) : text[k] = pattern
    THEN LET k == CHOOSE k \in 1..Len(text) :
                    /\ text[k] = pattern
                    /\ \A j \in 1..(k - 1) : text[j] # pattern
         IN  [text EXCEPT ![k] = replacement]
    ELSE text

\* A test that takes every response for successful.
ResponseOkAlways(id) == TRUE

\* response.ok of the response fetched for a token id
ResponseOk(id) == id \in httpOk

\* The document of a token id as metadata and metadataBulk return it: the
\* image rewritten, tokenId and contract attached.
Json(id) ==
    [image |-> Replace(DocumentImage(id), "ipfs://", IPFSGateway),
     tokenId |-> id,
     contract |-> ContractAddress[metaClass]]

\* An order left as it is.
Unsorted(s) == s

\* s.sort((a, b) => a.tokenId.toNumber() - b.tokenId.toNumber())
RECURSIVE Sort(_)
Sort(s) ==
    IF s = <<>> THEN <<>>
    ELSE LET rest == Sort(Tail(s))
             k == Cardinality({ j \in 1..Len(rest) :
                                  rest[j].tokenId < s[1].tokenId })
         IN  SubSeq(rest, 1, k) \o <<s[1]>> \o SubSeq(rest, k + 1, Len(rest))

\* The order ownedMetadata and metadataBulk return their results in:
\* ERC1155 sorts them, ERC721 returns them as collected.
Ordered(s) == IF metaClass = "ERC1155" THEN Sort(s) ELSE s

\* What `await this.ownedTokenIds(...)` can resolve to.  ERC721 resolves to
\* the ids in the order tokenOfOwnerByIndex enumerates them; ERC1155 without
\* aggregator to the owned ids of the range, ascending, and with one to the
\* empty `results` (see ForResponse).
OwnedIdLists ==
    CASE metaClass = "ERC721" -> IdLists
      [] metaClass = "ERC1155" /\ metaMulticall -> {<<>>}
      [] OTHER -> { s \in IdLists : \A i \in 1..(Len(s) - 1) : s[i] < s[i + 1] }

\* A method is entered with nothing collected.  A call leaves nothing
\* behind in the wrapper, so one call per wrapper shows all there is.
MetaEnter(op, pcNext, ids) ==
    /\ metaPc = "idle"
    /\ metaOp' = op
    /\ metaPc' = pcNext
    /\ tokens' = ids
    /\ settled' = {}
    /\ metaResult' = <<>>
    /\ metaErr' = ""
    /\ UNCHANGED <<metaClass, metaMulticall, IPFSGateway, httpOk>>

\* The fetches of metadataBulk are started over `ids`; with none to wait
\* for the (empty) result is returned.
StartBulk(ids) ==
    /\ tokens' = ids
    /\ settled' = {}
    /\ metaPc' = IF ids = <<>> THEN "returned" ELSE "awaitFetches"
    /\ UNCHANGED <<metaResult, metaErr>>

\* metadata(id) up to the answer of its fetch.
Metadata(id) ==
    /\ MetaEnter("metadata", "awaitFetch", <<id>>)
    /\ UNCHANGED otherThanMeta

\* The fetch of metadata(id) is answered: a response that is not ok throws,
\* else the document is rewritten and returned.
MetadataFetched ==
    /\ metaPc = "awaitFetch"
    /\ UNCHANGED otherThanMeta
    /\ IF ResponseOk(tokens[1])
       THEN /\ metaPc' = "returned"
            /\ metaResult' = <<Json(tokens[1])>>
            /\ metaErr' = ""
       ELSE /\ metaPc' = "failed"
            /\ metaErr' = "Error fetching metadata JSON"
            /\ UNCHANGED metaResult
    /\ UNCHANGED <<metaOp, metaClass, metaMulticall, IPFSGateway, httpOk,
                   tokens, settled>>

\* metadataBulk(tokens) up to Promise.all over its fetches.
MetadataBulk(ids) ==
    /\ MetaEnter("metadataBulk",
                 IF ids = <<>> THEN "returned" ELSE "awaitFetches", ids)
    /\ UNCHANGED otherThanMeta

\* The fetch of position k is answered, in whatever order the fetches
\* complete.  After the last one the responses are gone through in the
\* order of the tokens: the first that is not ok throws, else every document
\* is rewritten and the result is returned in the order of the class.
BulkFetched(k) ==
    /\ metaPc = "awaitFetches"
    /\ k \in (1..Len(tokens)) \ settled
    /\ UNCHANGED otherThanMeta
    /\ settled' = settled \cup {k}
    /\ IF settled' # 1..Len(tokens)
       THEN UNCHANGED <<metaPc, metaResult, metaErr>>
       ELSE IF \E j \in 1..Len(tokens) : ~ResponseOk(tokens[j])
       THEN /\ metaPc' = "failed"
            /\ metaErr' = "Error fetching metadata"
            /\ UNCHANGED metaResult
       ELSE /\ metaPc' = "returned"
            /\ metaResult' =
                  Ordered([j \in 1..Len(tokens) |-> Json(tokens[j])])
            /\ metaErr' = ""
    /\ UNCHANGED <<metaOp, metaClass, metaMulticall, IPFSGateway, httpOk,
                   tokens>>

\* ownedMetadata(owner, ...) up to its first await: ownedTokenIds is called.
OwnedMetadata ==
    /\ MetaEnter("ownedMetadata", "awaitOwnedTokenIds", <<>>)
    /\ UNCHANGED otherThanMeta

\* ownedTokenIds is answered with tokenIds.  With an aggregator the uri
\* calls of the ids are aggregated; without one a metadata read per id is
\* started and all are awaited together.
OwnedTokenIdsAnswered(tokenIds) ==
    /\ metaPc = "awaitOwnedTokenIds"
    /\ tokenIds \in OwnedIdLists
    /\ UNCHANGED otherThanMeta
    /\ tokens' = tokenIds
    /\ metaPc' = IF metaMulticall /\ metaClass = "ERC1155" THEN "awaitUris"
                 ELSE IF metaMulticall
                 THEN (IF tokenIds = <<>> THEN "returned" ELSE "awaitUris")
                 ELSE (IF tokenIds = <<>> THEN "returned" ELSE "awaitAll")
    /\ UNCHANGED <<metaOp, metaClass, metaMulticall, IPFSGateway, httpOk,
                   settled, metaResult, metaErr>>

\* The aggregated uri calls are answered: the ids are paired with their
\* uris by position and handed to metadataBulk.
UrisAnswered ==
    /\ metaPc = "awaitUris"
    /\ UNCHANGED otherThanMeta
    /\ StartBulk(tokens)
    /\ UNCHANGED <<metaOp, metaClass, metaMulticall, IPFSGateway, httpOk>>

\* One of the metadata reads started by ownedMetadata settles.  A response
\* that is not ok rejects it, and Promise.all with it; after the last one
\* the documents are returned in the order of the class.
OwnedMetadataSettled(k) ==
    /\ metaPc = "awaitAll"
    /\ k \in (1..Len(tokens)) \ settled
    /\ UNCHANGED otherThanMeta
    /\ settled' = settled \cup {k}
    /\ IF ~ResponseOk(tokens[k])
       THEN /\ metaPc' = "failed"
            /\ metaErr' = "Error fetching metadata JSON"
            /\ UNCHANGED metaResult
       ELSE IF settled' # 1..Len(tokens)
       THEN UNCHANGED <<metaPc, metaResult, metaErr>>
       ELSE /\ metaPc' = "returned"
            /\ metaResult' =
                  Ordered([j \in 1..Len(tokens) |-> Json(tokens[j])])
            /\ metaErr' = ""
    /\ UNCHANGED <<metaOp, metaClass, metaMulticall, IPFSGateway, httpOk,
                   tokens>>

\* A read awaited (a contract call, the aggregate call or a fetch) rejects:
\* the method fails with that error.
MetaRejected ==
    /\ metaPc \in {"awaitFetch", "awaitFetches", "awaitOwnedTokenIds",
                   "awaitUris", "awaitAll"}
    /\ UNCHANGED otherThanMeta
    /\ metaPc' = "failed"
    /\ metaErr' = "rejected"
    /\ UNCHANGED <<metaOp, metaClass, metaMulticall, IPFSGateway, httpOk,
                   tokens, settled, metaResult>>

\* new ERC1155(contract, gateway) or new ERC721(contract, gateway), over a
\* server that answers the fetches of the ids in `ok` successfully.
NewToken(class, aggregator, gateway, ok) ==
    /\ metaPc = "unbound"
    /\ UNCHANGED otherThanMeta
    /\ metaPc' = "idle"
    /\ metaClass' = class
    /\ metaMulticall' = aggregator
    /\ IPFSGateway' = gateway
    /\ httpOk' = ok
    /\ UNCHANGED <<metaOp, tokens, settled, metaResult, metaErr>>

MetaInit ==
    /\ metaPc = "unbound"
    /\ metaOp = ""
    /\ metaClass = "ERC1155"
    /\ metaMulticall = FALSE
    /\ IPFSGateway = "https://cloudflare-ipfs.com/ipfs/"
    /\ httpOk = {}
    /\ tokens = <<>>
    /\ settled = {}
    /\ metaResult = <<>>
    /\ metaErr = ""

MetaNext ==
    \/ \E class \in {"ERC1155", "ERC721"}, aggregator \in BOOLEAN,
          gateway \in Gateways, ok \in SUBSET MetaIds :
          NewToken(class, aggregator, gateway, ok)
    \/ \E id \in MetaIds : Metadata(id)
    \/ MetadataFetched
    \/ \E ids \in IdLists : MetadataBulk(ids)
    \/ \E k \in MetaIds : BulkFetched(k)
    \/ OwnedMetadata
    \/ \E tokenIds \in IdLists : OwnedTokenIdsAnswered(tokenIds)
    \/ UrisAnswered
    \/ \E k \in MetaIds : OwnedMetadataSettled(k)
    \/ MetaRejected


\* ------------------------------------------------------------------------
\* Web3Controller.load and Web3Controller.getChains
\* ------------------------------------------------------------------------
MaxLoads == 2
MaxFetches == 3

\* The load calls that can be pending at the same time.
Loads == 1..MaxLoads

\* The options of a load call: none (no chain id), the chain id of a chain
\* on the chain list, the chain id of a chain that is not on it, a chain id
\* with a jsonRpcProvider or webSocketProvider url.
LoadOptions == {"none", "chainId", "unlistedChainId", "rpcUrl"}

\* An rpc url is the sequence of its parts; the placeholder marker '$' of a
\* template url is a part of its own.
PlainUrl == <<"https://rpc.one/">>
OtherUrl == <<"https://rpc.two/">>
TemplateUrl == <<"https://rpc.three/", "$", "{API_KEY}">>

\* The chain lists (the JSON array) the list url can answer with: chains
\* with plain and template rpc urls, chains without rpc url, a chain id
\* listed twice, the empty array.
ChainLists ==
    { <<>>,
      << [chainId |-> 1, rpc |-> <<PlainUrl>>] >>,
      << [chainId |-> 2, rpc |-> <<>>] >>,
      << [chainId |-> 1, rpc |-> <<TemplateUrl, PlainUrl>>],
         [chainId |-> 2, rpc |-> <<>>] >>,
      << [chainId |-> 1, rpc |-> <<TemplateUrl>>],
         [chainId |-> 2, rpc |-> <<OtherUrl, TemplateUrl>>] >>,
      << [chainId |-> 2, rpc |-> <<PlainUrl>>],
         [chainId |-> 2, rpc |-> <<OtherUrl>>] >> }

\* The rpc urls as they are listed.
RpcUnfiltered(rpc) == rpc

\* chain.rpc.filter(elem => !elem.includes('$'))
RpcFilter(rpc) == SelectSeq(rpc, LAMBDA elem : ~Includes(elem, <<"$">>))

\* The map getChains builds from the chain list json: the chains that have
\* an rpc url, by chain id (a later entry of the same id replaces an earlier
\* one), each with its rpc urls filtered.  The map is the function from
\* the chain id to the rpc urls of its chain.
ResultMap(json) ==
    LET kept == SelectSeq(json, LAMBDA elem : Len(elem.rpc) # 0)
        ids == {kept[i].chainId : i \in 1..Len(kept)}
        lastOf(id) == CHOOSE i \in 1..Len(kept) :
                          /\ kept[i].chainId = id
                          /\ \A j \in (i + 1)..Len(kept) : kept[j].chainId # id
    IN  [id \in ids |-> RpcFilter(kept[lastOf(id)].rpc)]

\* A size test that takes every cache for empty.
CacheNeverFilled(cache) == FALSE

\* ChainListCache.size !== 0
CacheFilled(cache) == DOMAIN cache # {}

\* What the chain-list fetch of a load call is answered with: a response
\* that is not ok, a list without a usable chain, a list with chains.
FetchAnswers == {"notOk", "empty", "listed"}

\* The chain list json of an answer of FetchAnswers.
JsonOf(answer) ==
    IF answer = "listed"
    THEN << [chainId |-> 1, rpc |-> <<TemplateUrl, PlainUrl>>],
            [chainId |-> 2, rpc |-> <<>>] >>
    ELSE <<>>

\* if (Web3ControllerSingleton)
SingletonSet(singleton) == singleton # 0

\* load call c goes on after `const chains = await getChains()`: the chain is
\* looked up and the provider made, then getChains is called again for the
\* constructor's arguments; the cache is not empty then.
AfterFirstChains(c, chains) ==
    /\ IF loadOpt[c] = "unlistedChainId" \/ chains = "empty"
       THEN /\ loadPc' = [loadPc EXCEPT ![c] = "failed"]
            /\ UNCHANGED madeBy
       ELSE /\ loadPc' = [loadPc EXCEPT ![c] = "resolved2"]
            /\ madeBy' = [madeBy EXCEPT ![c] = @ + 1]
    /\ UNCHANGED <<Web3ControllerSingleton, loadRet, controllers, completed>>

\* load call c goes on after the `await this.getChains()` of the
\* constructor's arguments: the controller is constructed, stored as the
\* singleton and returned.
AfterSecondChains(c) ==
    /\ loadPc' = [loadPc EXCEPT ![c] = "returned"]
    /\ controllers' = controllers + 1
    /\ madeBy' = [madeBy EXCEPT ![c] = @ + 1]
    /\ Web3ControllerSingleton' = controllers + 1
    /\ loadRet' = [loadRet EXCEPT ![c] = controllers + 1]
    /\ completed' = IF completed = 0 THEN controllers + 1 ELSE completed

\* load(appName, options) up to its first await: the singleton when there
\* is one; else the options are checked, a provider is made from an rpc url
\* given, and getChains is called, which answers from the cache when it is
\* not empty and fetches the list otherwise.
Load(c, opt) ==
    /\ loadPc[c] \in {"idle", "returned", "failed"}
    /\ UNCHANGED otherThanLoad
    /\ loadOpt' = [loadOpt EXCEPT ![c] = opt]
    /\ lateOf' = [lateOf EXCEPT ![c] = completed]
    /\ UNCHANGED <<Web3ControllerSingleton, ChainListCache, controllers,
                   completed>>
    /\ IF SingletonSet(Web3ControllerSingleton) \/ opt = "none"
       THEN /\ loadPc' = [loadPc EXCEPT ![c] =
                  IF SingletonSet(Web3ControllerSingleton) THEN "returned"
                  ELSE "failed"]
            /\ loadRet' = [loadRet EXCEPT ![c] = Web3ControllerSingleton]
            /\ madeBy' = [madeBy EXCEPT ![c] = 0]
            /\ UNCHANGED fetches
       ELSE /\ loadRet' = [loadRet EXCEPT ![c] = 0]
            /\ IF CacheFilled(ChainListCache)
               THEN /\ loadPc' = [loadPc EXCEPT ![c] =
                          IF opt = "rpcUrl" THEN "resolved2" ELSE "resolved1"]
                    /\ madeBy' = [madeBy EXCEPT ![c] =
                          IF opt = "rpcUrl" THEN 1 ELSE 0]
                    /\ UNCHANGED fetches
               ELSE /\ fetches < MaxFetches
                    /\ loadPc' = [loadPc EXCEPT ![c] =
                          IF opt = "rpcUrl" THEN "fetch2" ELSE "fetch1"]
                    /\ madeBy' = [madeBy EXCEPT ![c] =
                          IF opt = "rpcUrl" THEN 2 ELSE 1]
                    /\ fetches' = fetches + 1

\* The chain-list fetch of load call c is answered: a response that is not
\* ok fails getChains and load with it; else the list becomes the cache and
\* load goes on.
ChainsFetched(c, answer) ==
    /\ loadPc[c] \in {"fetch1", "fetch2"}
    /\ UNCHANGED otherThanLoad
    /\ UNCHANGED <<loadOpt, lateOf, fetches>>
    /\ IF answer = "notOk"
       THEN /\ loadPc' = [loadPc EXCEPT ![c] = "failed"]
            /\ UNCHANGED <<Web3ControllerSingleton, ChainListCache, loadRet,
                           madeBy, controllers, completed>>
       ELSE /\ ChainListCache' = ResultMap(JsonOf(answer))
            /\ IF loadPc[c] = "fetch1" THEN AfterFirstChains(c, answer)
               ELSE AfterSecondChains(c)

\* load call c resumes after an `await getChains()` that was answered from
\* the cache.
ChainsFromCache(c) ==
    /\ loadPc[c] \in {"resolved1", "resolved2"}
    /\ UNCHANGED otherThanLoad
    /\ UNCHANGED <<loadOpt, lateOf, fetches, ChainListCache>>
    /\ IF loadPc[c] = "resolved1" THEN AfterFirstChains(c, "listed")
       ELSE AfterSecondChains(c)

LoadInit ==
    /\ Web3ControllerSingleton = 0
    /\ ChainListCache = <<>>
    /\ loadPc = [c \in Loads |-> "idle"]
    /\ loadOpt = [c \in Loads |-> "none"]
    /\ loadRet = [c \in Loads |-> 0]
    /\ madeBy = [c \in Loads |-> 0]
    /\ lateOf = [c \in Loads |-> 0]
    /\ controllers = 0
    /\ fetches = 0
    /\ completed = 0

LoadNext ==
    \/ \E c \in Loads, opt \in LoadOptions : Load(c, opt)
    \/ \E c \in Loads, answer \in FetchAnswers : ChainsFetched(c, answer)
    \/ \E c \in Loads : ChainsFromCache(c)


\* ------------------------------------------------------------------------
\* Web3Controller: showWeb3Modal, the liveness timer, disconnect, the wallet
\* events and the operations that need a connected wallet
\* ------------------------------------------------------------------------
MaxModals == 2
MaxTimers == 2

\* The showWeb3Modal calls that can be pending at the same time.
Modals == 1..MaxModals

\* The Metronome timers that can be created.
Timers == 1..MaxTimers

\* The events of the connected wallet the controller listens to.
WalletEvents ==
    {"connect", "disconnect", "accountsChanged", "chainChanged", "error"}

\* The operations that need a connected wallet.
SignerOps == {"signMessage", "switchChain", "addChain", "watchAsset"}

\* What signer.getAddress() of a tick is answered with.
AddressAnswers == {"address", "empty", "fails"}

\* get connected(): a signer is there exactly when a Web3 provider is held.
Connected == _web3Provider

\* A guard that takes a wallet for connected whatever is held.
SignerMissingNever == FALSE

\* if (!this.signer) / if (!this.web3Provider)
SignerMissing == ~_web3Provider

\* What the step taken last was, for the claims: its name and argument,
\* whether the controller was connected before it, whether the call it
\* belongs to failed with it, and the wallet requests it sent.
Step(name, arg, failed, requests) ==
    [step |-> name, arg |-> arg, wasConnected |-> _web3Provider,
     failed |-> failed, requests |-> requests]

\* A disconnect() that emits 'disconnect' whether connected or not.
DisconnectAlwaysEmits(before) ==
    /\ liveTimers' = liveTimers \ {_checkTimer}
    /\ emitted' = before \o <<"disconnect">>
    /\ _web3Provider' = FALSE

\* The body of disconnect(): destroy the timer held, emit 'disconnect' when
\* connected, drop the Web3 provider.  `before` are the events the step has
\* emitted already.
Disconnect(before) ==
    /\ liveTimers' = liveTimers \ {_checkTimer}
    /\ emitted' = before \o (IF _web3Provider THEN <<"disconnect">> ELSE <<>>)
    /\ _web3Provider' = FALSE

\* A catch block that rethrows without disconnecting.
RethrowOnly(c, before) ==
    /\ modalPc' = [modalPc EXCEPT ![c] = "idle"]
    /\ forceNetwork' = [forceNetwork EXCEPT ![c] = FALSE]
    /\ emitted' = before
    /\ UNCHANGED <<liveTimers, _web3Provider>>

\* catch (error) { await this.disconnect(); throw error; }
DisconnectAndRethrow(c, before) ==
    /\ modalPc' = [modalPc EXCEPT ![c] = "idle"]
    /\ forceNetwork' = [forceNetwork EXCEPT ![c] = FALSE]
    /\ Disconnect(before)

\* this._checkTimer = new Metronome(500, true), ending showWeb3Modal call c
StartTimer(c) ==
    /\ timers < MaxTimers
    /\ timers' = timers + 1
    /\ _checkTimer' = timers + 1
    /\ liveTimers' = liveTimers \cup {timers + 1}
    /\ modalPc' = [modalPc EXCEPT ![c] = "idle"]
    /\ forceNetwork' = [forceNetwork EXCEPT ![c] = FALSE]

\* showWeb3Modal(forceNetwork) up to `await this.modal.connect()`, as call c
\* (the first one free): a connected controller is disconnected first;
\* without a modal (no browser) connecting throws at once and the call ends.
ShowWeb3Modal(c, force) ==
    /\ modal # "unloaded"
    /\ modalPc[c] = "idle"
    /\ \A d \in Modals : d < c => modalPc[d] # "idle"
    /\ UNCHANGED otherThanConn
    /\ IF modal = "absent"
       THEN /\ UNCHANGED <<modalPc, forceNetwork>>
            /\ Disconnect(<<>>)
            /\ last' = Step("showWeb3Modal", "noModal", TRUE, 0)
       ELSE /\ modalPc' = [modalPc EXCEPT ![c] = "connecting"]
            /\ forceNetwork' = [forceNetwork EXCEPT ![c] = force]
            /\ IF Connected THEN Disconnect(<<>>)
               ELSE /\ emitted' = <<>>
                    /\ UNCHANGED <<liveTimers, _web3Provider>>
            /\ last' = Step("showWeb3Modal", "connecting", FALSE, 0)
    /\ UNCHANGED <<modal, _instance, _checkTimer, timers, tickPc>>

\* modal.connect() of call c resolves: the handlers are put on the wallet
\* instance and the Web3 provider is made; with forceNetwork the chain
\* switch is awaited, else the timer is started.
ModalConnected(c) ==
    /\ modalPc[c] = "connecting"
    /\ UNCHANGED otherThanConn
    /\ _instance' = TRUE
    /\ _web3Provider' = TRUE
    /\ emitted' = <<>>
    /\ last' = Step("modalConnected", "", FALSE, 0)
    /\ IF forceNetwork[c]
       THEN /\ modalPc' = [modalPc EXCEPT ![c] = "switching"]
            /\ UNCHANGED <<_checkTimer, liveTimers, timers, forceNetwork>>
       ELSE StartTimer(c)
    /\ UNCHANGED <<modal, tickPc>>

\* modal.connect() of call c rejects (the modal is closed, the wallet
\* refuses): disconnect and rethrow.
ModalRejected(c) ==
    /\ modalPc[c] = "connecting"
    /\ UNCHANGED otherThanConn
    /\ DisconnectAndRethrow(c, <<>>)
    /\ last' = Step("showWeb3Modal", "connectFailed", TRUE, 0)
    /\ UNCHANGED <<modal, _instance, _checkTimer, timers, tickPc>>

\* The forced chain switch of call c succeeds: the timer is started.
SwitchResolved(c) ==
    /\ modalPc[c] = "switching"
    /\ UNCHANGED otherThanConn
    /\ StartTimer(c)
    /\ emitted' = <<>>
    /\ last' = Step("switchResolved", "", FALSE, 0)
    /\ UNCHANGED <<modal, _web3Provider, _instance, tickPc>>

\* The forced chain switch of call c throws: disconnect and rethrow.
SwitchRejected(c) ==
    /\ modalPc[c] = "switching"
    /\ UNCHANGED otherThanConn
    /\ DisconnectAndRethrow(c, <<>>)
    /\ last' = Step("showWeb3Modal", "switchFailed", TRUE, 0)
    /\ UNCHANGED <<modal, _instance, _checkTimer, timers, tickPc>>

\* A live timer ticks, no handler of it being in flight: without a signer
\* the handler disconnects, else it asks the signer for its address.
Tick(t) ==
    /\ t \in liveTimers
    /\ tickPc[t] = "idle"
    /\ UNCHANGED otherThanConn
    /\ IF SignerMissing
       THEN /\ Disconnect(<<>>)
            /\ UNCHANGED tickPc
       ELSE /\ tickPc' = [tickPc EXCEPT ![t] = "awaitAddress"]
            /\ emitted' = <<>>
            /\ UNCHANGED <<liveTimers, _web3Provider>>
    /\ last' = Step("tick", "", FALSE, 0)
    /\ UNCHANGED <<modal, _instance, _checkTimer, timers, modalPc,
                   forceNetwork>>

\* signer.getAddress() of the handler of timer t is answered: an empty
\* address disconnects; a failure is caught by the handler's empty catch
\* block; with an address the handler ends (its chain check changes nothing
\* of the controller).
AddressAnswered(t, answer) ==
    /\ tickPc[t] = "awaitAddress"
    /\ UNCHANGED otherThanConn
    /\ tickPc' = [tickPc EXCEPT ![t] = "idle"]
    /\ IF answer = "empty"
       THEN Disconnect(<<>>)
       ELSE /\ emitted' = <<>>
            /\ UNCHANGED <<liveTimers, _web3Provider>>
    /\ last' = Step("addressAnswered", answer, FALSE, 0)
    /\ UNCHANGED <<modal, _instance, _checkTimer, timers, modalPc,
                   forceNetwork>>

\* disconnect() is called.
DisconnectCalled ==
    /\ modal # "unloaded"
    /\ UNCHANGED otherThanConn
    /\ Disconnect(<<>>)
    /\ last' = Step("disconnect", "", FALSE, 0)
    /\ UNCHANGED <<modal, _instance, _checkTimer, timers, modalPc,
                   forceNetwork, tickPc>>

\* A wallet instance the controller has put its handlers on emits an event:
\* 'connect', 'accountsChanged' and 'chainChanged' make the Web3 provider
\* anew and are emitted again; 'disconnect' and 'error' are emitted again.
WalletEvent(event) ==
    /\ _instance
    /\ UNCHANGED otherThanConn
    /\ _web3Provider' =
          IF event \in {"connect", "accountsChanged", "chainChanged"}
          THEN TRUE ELSE _web3Provider
    /\ emitted' = <<event>>
    /\ last' = Step("walletEvent", event, FALSE, 0)
    /\ UNCHANGED <<modal, _instance, _checkTimer, liveTimers, timers,
                   modalPc, forceNetwork, tickPc>>

\* signMessage, switchChain, addChain or watchAsset is called: without a
\* signer (a Web3 provider) it throws at once, else it goes to the wallet.
SignerOp(op) ==
    /\ modal # "unloaded"
    /\ UNCHANGED otherThanConn
    /\ emitted' = <<>>
    /\ last' = IF SignerMissing THEN Step(op, "", TRUE, 0)
               ELSE Step(op, "", FALSE, 1)
    /\ UNCHANGED <<modal, _web3Provider, _instance, _checkTimer, liveTimers,
                   timers, modalPc, forceNetwork, tickPc>>

\* The controller is constructed by load, in a browser (with a modal) or
\* outside one.
NewWeb3Controller(browser) ==
    /\ modal = "unloaded"
    /\ UNCHANGED otherThanConn
    /\ modal' = IF browser THEN "present" ELSE "absent"
    /\ UNCHANGED <<_web3Provider, _instance, _checkTimer, liveTimers, timers,
                   modalPc, forceNetwork, tickPc, emitted, last>>

ConnInit ==
    /\ modal = "unloaded"
    /\ _web3Provider = FALSE
    /\ _instance = FALSE
    /\ _checkTimer = 0
    /\ liveTimers = {}
    /\ timers = 0
    /\ modalPc = [c \in Modals |-> "idle"]
    /\ forceNetwork = [c \in Modals |-> FALSE]
    /\ tickPc = [t \in Timers |-> "idle"]
    /\ emitted = <<>>
    /\ last = [step |-> "", arg |-> "", wasConnected |-> FALSE,
               failed |-> FALSE, requests |-> 0]

ConnNext ==
    \/ \E browser \in BOOLEAN : NewWeb3Controller(browser)
    \/ \E c \in Modals, force \in BOOLEAN : ShowWeb3Modal(c, force)
    \/ \E c \in Modals : ModalConnected(c)
    \/ \E c \in Modals : ModalRejected(c)
    \/ \E c \in Modals : SwitchResolved(c)
    \/ \E c \in Modals : SwitchRejected(c)
    \/ \E t \in Timers : Tick(t)
    \/ \E t \in Timers, answer \in AddressAnswers : AddressAnswered(t, answer)
    \/ DisconnectCalled
    \/ \E event \in WalletEvents : WalletEvent(event)
    \/ \E op \in SignerOps : SignerOp(op)


\* ------------------------------------------------------------------------
\* Web3Controller.fetchABI: the ABI cache in local storage, the explorer
\* request, the wait and the retry (one contract address)
\* ------------------------------------------------------------------------
MaxAbiCalls == 2
MaxAbiRequests == 2

\* The fetchABI calls that can be pending at the same time.
AbiCalls == 1..MaxAbiCalls

\* this._chainList, by chain id: the explorers of the chains that have a
\* descriptor.  Chain 1 has an explorer, chain 3 has a descriptor without
\* explorers, chain 2 has no descriptor.
ChainExplorers == (1 :> <<"https://explorer">>) @@ (3 :> <<>>)

\* The chain ids fetchABI is called with.
AbiChainIds == {1, 2, 3}

\* The ABI texts an explorer can answer with.
AbiTexts == {"abiA", "abiB"}

\* What an explorer request ends with: fetch rejects, the response is not
\* ok, its body has a status other than "1" or no result, or it has status
\* "1" and an ABI text as result.
ExplorerAnswers ==
    {[kind |-> k, result |-> ""] : k \in {"rejects", "notOk", "status0"}}
    \cup {[kind |-> "status1", result |-> t] : t \in AbiTexts}

\* A chain list that has an explorer for every chain id.
HasExplorerAlways(chainId) == TRUE

\* The negation of `!chain || chain.explorers.length === 0`
HasExplorer(chainId) ==
    /\ chainId \in DOMAIN ChainExplorers
    /\ Len(ChainExplorers[chainId]) # 0

\* A call that gives up where the code waits.
GivesUp(c) == abiPc' = [abiPc EXCEPT ![c] = "failed"]

\* await sleep(5) before fetchABI calls itself
WaitsAndRetries(c) == abiPc' = [abiPc EXCEPT ![c] = "sleeping"]

\* The body of fetchABI up to `await fetch(url)`, for call c with the options
\* opt: a text cached is returned unless force_refresh, a chain without
\* explorer throws, else the explorer is asked.
FetchABIBody(c, opt) ==
    IF ~opt.force_refresh /\ ls[opt.chainId] # ""
    THEN /\ abiPc' = [abiPc EXCEPT ![c] = "returned"]
         /\ abiRet' = [abiRet EXCEPT ![c] = ls[opt.chainId]]
         /\ UNCHANGED <<abiRequests, explorerRequests>>
    ELSE IF ~HasExplorer(opt.chainId)
    THEN /\ abiPc' = [abiPc EXCEPT ![c] = "failed"]
         /\ UNCHANGED <<abiRet, abiRequests, explorerRequests>>
    ELSE /\ explorerRequests < MaxAbiRequests
         /\ abiPc' = [abiPc EXCEPT ![c] = "fetching"]
         /\ abiRequests' = [abiRequests EXCEPT ![c] = @ + 1]
         /\ explorerRequests' = explorerRequests + 1
         /\ UNCHANGED abiRet

\* fetchABI(contract_address, {chainId, force_refresh}) is called, as call
\* c (the first one free).
FetchABI(c, chainId, force) ==
    /\ abiPc[c] = "idle"
    /\ \A d \in AbiCalls : d < c => abiPc[d] # "idle"
    /\ UNCHANGED otherThanAbi
    /\ abiOptions' = [abiOptions EXCEPT
                         ![c] = [chainId |-> chainId, force_refresh |-> force]]
    /\ abiCachedAtStart' = [abiCachedAtStart EXCEPT ![c] = ls[chainId]]
    /\ FetchABIBody(c, [chainId |-> chainId, force_refresh |-> force])
    /\ UNCHANGED <<ls, abiWrites, abiAnswer, overwrittenBy>>

\* The explorer request of call c ends: a rejected fetch and a response
\* that is not ok are thrown to the caller; a result with status "1" is
\* stored and returned; any other body makes the call wait.
ExplorerAnswered(c, answer) ==
    /\ abiPc[c] = "fetching"
    /\ UNCHANGED otherThanAbi
    /\ abiAnswer' = [abiAnswer EXCEPT ![c] = answer.kind]
    /\ CASE answer.kind \in {"rejects", "notOk"} ->
              /\ abiPc' = [abiPc EXCEPT ![c] = "failed"]
              /\ UNCHANGED <<ls, abiRet, abiWrites, overwrittenBy>>
         [] answer.kind = "status1" ->
              /\ ls' = [ls EXCEPT ![abiOptions[c].chainId] = answer.result]
              /\ abiWrites' = [abiWrites EXCEPT ![c] = @ + 1]
              /\ overwrittenBy' =
                    IF ls[abiOptions[c].chainId] \notin {"", answer.result}
                    THEN IF abiOptions[c].force_refresh
                         THEN "forced" ELSE "unforced"
                    ELSE overwrittenBy
              /\ abiPc' = [abiPc EXCEPT ![c] = "returned"]
              /\ abiRet' = [abiRet EXCEPT ![c] = answer.result]
         [] OTHER ->
              /\ WaitsAndRetries(c)
              /\ UNCHANGED <<ls, abiRet, abiWrites, overwrittenBy>>
    /\ UNCHANGED <<abiOptions, abiRequests, abiCachedAtStart,
                   explorerRequests>>

\* The wait of call c is over: fetchABI calls itself with the same options.
Slept(c) ==
    /\ abiPc[c] = "sleeping"
    /\ UNCHANGED otherThanAbi
    /\ FetchABIBody(c, abiOptions[c])
    /\ UNCHANGED <<ls, abiOptions, abiWrites, abiAnswer, abiCachedAtStart,
                   overwrittenBy>>

\* The caller of call c has its result: the call is over.
AbiCallOver(c) ==
    /\ abiPc[c] \in {"returned", "failed"}
    /\ UNCHANGED otherThanAbi
    /\ abiPc' = [abiPc EXCEPT ![c] = "idle"]
    /\ abiRet' = [abiRet EXCEPT ![c] = ""]
    /\ abiRequests' = [abiRequests EXCEPT ![c] = 0]
    /\ abiWrites' = [abiWrites EXCEPT ![c] = 0]
    /\ abiAnswer' = [abiAnswer EXCEPT ![c] = ""]
    /\ abiCachedAtStart' = [abiCachedAtStart EXCEPT ![c] = ""]
    /\ abiOptions' = [abiOptions EXCEPT
                         ![c] = [chainId |-> 1, force_refresh |-> FALSE]]
    /\ UNCHANGED <<ls, overwrittenBy, explorerRequests>>

AbiInit ==
    /\ ls = [chainId \in AbiChainIds |-> ""]
    /\ abiPc = [c \in AbiCalls |-> "idle"]
    /\ abiOptions = [c \in AbiCalls |->
                        [chainId |-> 1, force_refresh |-> FALSE]]
    /\ abiRet = [c \in AbiCalls |-> ""]
    /\ abiRequests = [c \in AbiCalls |-> 0]
    /\ abiWrites = [c \in AbiCalls |-> 0]
    /\ abiAnswer = [c \in AbiCalls |-> ""]
    /\ abiCachedAtStart = [c \in AbiCalls |-> ""]
    /\ overwrittenBy = "none"
    /\ explorerRequests = 0

AbiNext ==
    \/ \E c \in AbiCalls, chainId \in AbiChainIds, force \in BOOLEAN :
          FetchABI(c, chainId, force)
    \/ \E c \in AbiCalls, answer \in ExplorerAnswers :
          ExplorerAnswered(c, answer)
    \/ \E c \in AbiCalls : Slept(c)
    \/ \E c \in AbiCalls : AbiCallOver(c)


\* ------------------------------------------------------------------------
\* Web3Controller.getChains called by itself, with and without forceRefresh
\* ------------------------------------------------------------------------
MaxChainsCalls == 2
MaxListRequests == 3

\* The getChains calls that can be pending at the same time.
ChainsCalls == 1..MaxChainsCalls

\* What the request of the chain list ends with: a response that is not ok,
\* or one that is and has a chain list as body.
ListAnswers ==
    {[ok |-> FALSE, json |-> <<>>]}
    \cup {[ok |-> TRUE, json |-> list] : list \in ChainLists}

\* getChains(listUrl, forceRefresh) is called, as call c (the first one
\* free): the cache is returned when it is filled and no refresh is forced,
\* else the list is requested.
GetChains(c, force) ==
    /\ chainsPc[c] = "idle"
    /\ \A d \in ChainsCalls : d < c => chainsPc[d] # "idle"
    /\ UNCHANGED otherThanChains
    /\ forceRefresh' = [forceRefresh EXCEPT ![c] = force]
    /\ chainsCacheAtStart' = [chainsCacheAtStart EXCEPT ![c] = ChainListCache]
    /\ chainsLast' = c
    /\ cacheBefore' = ChainListCache
    /\ IF CacheFilled(ChainListCache) /\ ~force
       THEN /\ chainsPc' = [chainsPc EXCEPT ![c] = "returned"]
            /\ chainsRet' = [chainsRet EXCEPT ![c] = ChainListCache]
            /\ UNCHANGED <<chainsRequests, listRequests>>
       ELSE /\ listRequests < MaxListRequests
            /\ chainsPc' = [chainsPc EXCEPT ![c] = "fetching"]
            /\ chainsRequests' = [chainsRequests EXCEPT ![c] = @ + 1]
            /\ listRequests' = listRequests + 1
            /\ UNCHANGED chainsRet
    /\ UNCHANGED <<ChainListCache, chainsJson>>

\* The request of getChains call c ends: a response that is not ok is
\* thrown; else the map built from the list becomes the cache and is
\* returned.
ListAnswered(c, answer) ==
    /\ chainsPc[c] = "fetching"
    /\ UNCHANGED otherThanChains
    /\ chainsJson' = [chainsJson EXCEPT ![c] = answer]
    /\ chainsLast' = c
    /\ cacheBefore' = ChainListCache
    /\ IF ~answer.ok
       THEN /\ chainsPc' = [chainsPc EXCEPT ![c] = "failed"]
            /\ UNCHANGED <<ChainListCache, chainsRet>>
       ELSE /\ ChainListCache' = ResultMap(answer.json)
            /\ chainsRet' = [chainsRet EXCEPT ![c] = ResultMap(answer.json)]
            /\ chainsPc' = [chainsPc EXCEPT ![c] = "returned"]
    /\ UNCHANGED <<forceRefresh, chainsRequests, chainsCacheAtStart,
                   listRequests>>

\* The caller of getChains call c has its result: the call is over.
GetChainsOver(c) ==
    /\ chainsPc[c] \in {"returned", "failed"}
    /\ UNCHANGED otherThanChains
    /\ chainsPc' = [chainsPc EXCEPT ![c] = "idle"]
    /\ forceRefresh' = [forceRefresh EXCEPT ![c] = FALSE]
    /\ chainsRet' = [chainsRet EXCEPT ![c] = <<>>]
    /\ chainsRequests' = [chainsRequests EXCEPT ![c] = 0]
    /\ chainsCacheAtStart' = [chainsCacheAtStart EXCEPT ![c] = <<>>]
    /\ chainsJson' = [chainsJson EXCEPT
                         ![c] = [ok |-> FALSE, json |-> <<>>]]
    /\ chainsLast' = 0
    /\ cacheBefore' = ChainListCache
    /\ UNCHANGED <<ChainListCache, listRequests>>

ChainsInit ==
    /\ chainsPc = [c \in ChainsCalls |-> "idle"]
    /\ forceRefresh = [c \in ChainsCalls |-> FALSE]
    /\ chainsRet = [c \in ChainsCalls |-> <<>>]
    /\ chainsRequests = [c \in ChainsCalls |-> 0]
    /\ chainsCacheAtStart = [c \in ChainsCalls |-> <<>>]
    /\ chainsJson = [c \in ChainsCalls |-> [ok |-> FALSE, json |-> <<>>]]
    /\ chainsLast = 0
    /\ cacheBefore = <<>>
    /\ listRequests = 0

ChainsNext ==
    \/ \E c \in ChainsCalls, force \in BOOLEAN : GetChains(c, force)
    \/ \E c \in ChainsCalls, answer \in ListAnswers : ListAnswered(c, answer)
    \/ \E c \in ChainsCalls : GetChainsOver(c)


\* ------------------------------------------------------------------------
\* ERC721.ownedTokenIds: the balance, the index calls in batches of 10 on
\* the aggregator path, Promise.all
\* ------------------------------------------------------------------------
MaxCount == 21
IndexBatchSize == 10

\* The token the contract's tokenOfOwnerByIndex(owner, i) returns: an
\* enumeration that is not in the order of the ids.
TokenOfOwnerByIndex(i) == 100 + ((i * 7) % 23)

\* let indexes = []; for (let i = 0; i < count; i++) indexes.push(i)
Indexes(n) == [k \in 1..n |-> k - 1]

\* The while loop over indexes: one aggregate call, a promise, per batch of
\* 10 indexes; a promise is named by the indexes of its calls.
RECURSIVE Promises(_)
Promises(indexes) ==
    IF indexes = <<>> THEN <<>>
    ELSE <<BatchOf(indexes, IndexBatchSize)>>
             \o Promises(RestOf(indexes, IndexBatchSize))

\* What aggregate resolves to for the tokenOfOwnerByIndex calls of one
\* batch, which all have the same outputs: one token per call, in the order
\* of the calls.
AggregateTokens(idxs) ==
    [k \in 1..Len(idxs) |-> TokenOfOwnerByIndex(idxs[k])]

\* The values of the promises in the order the promises settled in.
AsSettled(values, order) == [k \in 1..Len(order) |-> values[order[k]]]

\* await Promise.all(promises): the values in the order of the promises,
\* whatever order they settled in.
PromiseAll(values, order) == values

\* .map(outer => outer.map(inner => result.push(inner)))
RECURSIVE PushAll(_)
PushAll(outers) ==
    IF outers = <<>> THEN <<>> ELSE Head(outers) \o PushAll(Tail(outers))

\* ownedTokenIds(owner) is called: balanceOf(owner) is read.
OwnedTokenIds721 ==
    /\ erc721Pc = "idle"
    /\ UNCHANGED otherThanErc721
    /\ erc721Pc' = "balanceOf"
    /\ UNCHANGED <<erc721Multicall, count, promises, outer, settledOrder,
                   erc721Ret>>

\* balanceOf(owner) is answered with n: with an aggregator the index calls
\* are issued in batches, all at once; without one each index is read by a
\* call of its own, and the promise of all of them is returned.
CountAnswered(n) ==
    /\ erc721Pc = "balanceOf"
    /\ UNCHANGED otherThanErc721
    /\ count' = n
    /\ promises' = IF erc721Multicall THEN Promises(Indexes(n)) ELSE <<>>
    /\ outer' = [k \in 1..Len(promises') |-> <<>>]
    /\ settledOrder' = <<>>
    /\ erc721Pc' = IF erc721Multicall THEN "promises" ELSE "reads"
    /\ UNCHANGED <<erc721Multicall, erc721Ret>>

\* Promise k is resolved, before or after any other.
PromiseResolved(k) ==
    /\ erc721Pc = "promises"
    /\ k \in 1..Len(promises)
    /\ \A j \in 1..Len(settledOrder) : settledOrder[j] # k
    /\ UNCHANGED otherThanErc721
    /\ outer' = [outer EXCEPT ![k] = AggregateTokens(promises[k])]
    /\ settledOrder' = Append(settledOrder, k)
    /\ UNCHANGED <<erc721Pc, erc721Multicall, count, promises, erc721Ret>>

\* Without an aggregator, all reads are resolved: their tokens are
\* returned, in the order of the indexes.
ReadsResolved ==
    /\ erc721Pc = "reads"
    /\ UNCHANGED otherThanErc721
    /\ erc721Ret' = AggregateTokens(Indexes(count))
    /\ erc721Pc' = "returned"
    /\ UNCHANGED <<erc721Multicall, count, promises, outer, settledOrder>>

\* With an aggregator, all promises are resolved: the tokens of the batches
\* are pushed onto the result one batch after the other, and it is
\* returned.
AllResolved ==
    /\ erc721Pc = "promises"
    /\ Len(settledOrder) = Len(promises)
    /\ UNCHANGED otherThanErc721
    /\ erc721Ret' = PushAll(PromiseAll(outer, settledOrder))
    /\ erc721Pc' = "returned"
    /\ UNCHANGED <<erc721Multicall, count, promises, outer, settledOrder>>

\* The balance read or one of the promises is rejected: ownedTokenIds
\* throws.
Erc721ReadFailed ==
    /\ \/ erc721Pc \in {"balanceOf", "reads"}
       \/ erc721Pc = "promises" /\ Len(settledOrder) < Len(promises)
    /\ UNCHANGED otherThanErc721
    /\ erc721Pc' = "failed"
    /\ UNCHANGED <<erc721Multicall, count, promises, outer, settledOrder,
                   erc721Ret>>

\* An ERC721 is constructed on a contract with or without a multicall
\* provider.
NewERC721(aggregator) ==
    /\ erc721Pc = "unbound"
    /\ UNCHANGED otherThanErc721
    /\ erc721Multicall' = aggregator
    /\ erc721Pc' = "idle"
    /\ UNCHANGED <<count, promises, outer, settledOrder, erc721Ret>>

Erc721Init ==
    /\ erc721Pc = "unbound"
    /\ erc721Multicall = FALSE
    /\ count = 0
    /\ promises = <<>>
    /\ outer = <<>>
    /\ settledOrder = <<>>
    /\ erc721Ret = <<>>

Erc721Next ==
    \/ \E aggregator \in BOOLEAN : NewERC721(aggregator)
    \/ OwnedTokenIds721
    \/ \E n \in 0..MaxCount : CountAnswered(n)
    \/ \E k \in 1..MaxCount : PromiseResolved(k)
    \/ AllResolved
    \/ ReadsResolved
    \/ Erc721ReadFailed


Init ==
    /\ AggInit /\ CreateInit /\ RetryInit /\ WriteInit /\ DiscInit
    /\ OwnInit /\ BatchInit /\ MetaInit /\ LoadInit /\ ConnInit
    /\ AbiInit /\ ChainsInit /\ Erc721Init

SpecAggregate == Init /\ [][AggNext]_vars
SpecCreate == Init /\ [][CreateNext]_vars
SpecRetry == Init /\ [][RetryNext]_vars
SpecWrite == Init /\ [][WriteNext]_vars
SpecDiscover == Init /\ [][DiscNext]_vars
SpecOwner == Init /\ [][OwnNext]_vars
SpecBatch == Init /\ [][BatchNext]_vars
SpecMeta == Init /\ [][MetaNext]_vars
SpecLoad == Init /\ [][LoadNext]_vars
SpecConn == Init /\ [][ConnNext]_vars
SpecAbi == Init /\ [][AbiNext]_vars
SpecChains == Init /\ [][ChainsNext]_vars
SpecErc721 == Init /\ [][Erc721Next]_vars

\* ------------------------------------------------------------------------
\* Claims about MulticallProvider.aggregate
\* ------------------------------------------------------------------------

\* What call i's own return data decodes to under call i's own outputs.
OwnResult(elem) ==
    Unwrap(elem.outputs, Decode(elem.outputs, Execute(CallRequest(elem))))

Ceil(n, d) == (n + d - 1) \div d

\* C1: for every call list and every batchSize >= 1, result i of aggregate is
\* the return data of call i decoded against call i's own declared outputs,
\* unwrapped to the scalar when call i declares exactly one output and kept
\* as the tuple otherwise.
C1_ResultsDecodedAgainstOwnOutputs ==
    (aggPc = "returned" /\ batchSize >= 1) =>
        \A i \in 1..Len(callResult) :
            /\ i <= Len(calls)
            /\ callResult[i] = OwnResult(calls[i])

\* C2: for every encodable call list of length N and every batchSize >= 1,
\* when every submission has been answered with one return-data element per
\* submitted call, aggregate returns a sequence of exactly N results.
C2_ReturnsNResults ==
    (/\ aggPc \in {"returned", "failed"}
     /\ batchSize >= 1
     /\ aggErr # "EncodeError"
     /\ answered = Len(issued)) =>
        /\ aggPc = "returned"
        /\ Len(callResult) = Len(calls)

\* C3: an aggregate over N calls with batch size b >= 1 that returns has made
\* exactly ceil(N/b) successful submissions (none for N = 0, one for N = b,
\* two for N = b + 1), and no run makes more than that.
C3_CeilSubmissions ==
    batchSize >= 1 =>
        /\ answered <= Ceil(Len(calls), batchSize)
        /\ Len(issued) <= Ceil(Len(calls), batchSize)
        /\ aggPc = "returned" =>
              /\ answered = Ceil(Len(calls), batchSize)
              /\ Len(issued) = answered

C3_Witness ==
    /\ aggPc = "returned"
    /\ batchSize >= 1
    /\ Len(calls) = batchSize + 1
    /\ answered = 2

\* The calls submission k (counted from 1) has to carry: those of indices
\* (k-1)*b + 1 .. min(k*b, N), in their order, each as its own request.
ExpectedBatch(k) ==
    LET lo == (k - 1) * batchSize
        hi == Min(k * batchSize, Len(calls))
    IN  [j \in 1..(hi - lo) |-> CallRequest(calls[lo + j])]

\* C4: with batch size b >= 1, the k-th submission carries exactly the calls
\* of indices k*b .. min((k+1)*b, N) - 1 (k counted from 0) in their original
\* order, each with its own target and call data, and a submission is issued
\* only when every earlier one has been answered.
C4_BatchesInOrder ==
    batchSize >= 1 =>
        /\ \A k \in 1..Len(issued) :
              /\ k * batchSize - batchSize < Len(calls)
              /\ issued[k] = ExpectedBatch(k)
        /\ Len(issued) <= answered + 1
        /\ aggPc = "await" =>
              /\ Len(issued) = answered + 1
              /\ batch = issued[Len(issued)]

C4_Witness ==
    /\ aggPc = "await"
    /\ batchSize = 2
    /\ Len(calls) = 3
    /\ Len(issued) = 2
    /\ answered = 1
    /\ Len(issued[2]) = 1
    /\ issued[2][1] = CallRequest(calls[3])
    /\ calls[3] # calls[1]

\* C31: when a submission of aggregate has failed with a revert, aggregate
\* has failed with that error: it returns nothing, the results of the
\* batches answered before included, and the submission that reverted is
\* the last one issued.
C31_RevertFailsAggregate ==
    aggErr = "call revert exception" =>
        /\ aggPc = "failed"
        /\ Len(issued) = answered + 1
        /\ batch = issued[Len(issued)]

\* The second of three submissions has reverted: one batch was answered and
\* decoded before it, one is left unsubmitted.
C31_Witness ==
    /\ aggPc = "failed"
    /\ aggErr = "call revert exception"
    /\ Len(calls) = 3
    /\ batchSize = 1
    /\ answered = 1
    /\ Len(callResult) = 1
    /\ Len(issued) = 2
    /\ Len(callRequests) = 1

\* C32: an aggregate over a list with a call whose parameters do not fit its
\* inputs, wherever in the list, has failed with the encoding error without
\* having made a submission.
C32_EncodesAllBeforeSubmitting ==
    (/\ aggPc # "idle"
     /\ \E i \in 1..Len(calls) :
           Len(calls[i].inputs) # Len(calls[i].params)) =>
        /\ aggPc = "failed"
        /\ aggErr = "EncodeError"
        /\ issued = <<>>
        /\ answered = 0

\* aggregate has failed on a list of three calls, batch size 1, of which
\* only the last does not encode.
C32_Witness ==
    /\ aggPc = "failed"
    /\ aggErr = "EncodeError"
    /\ batchSize = 1
    /\ Len(calls) = 3
    /\ Len(calls[1].inputs) = Len(calls[1].params)
    /\ Len(calls[2].inputs) = Len(calls[2].params)
    /\ Len(calls[3].inputs) # Len(calls[3].params)
    /\ issued = <<>>

\* C37: aggregate ends its loop for every batch size, 0 included.  A round
\* of the loop only slices the batch off the calls left, so a round that
\* takes no call off leaves the loop as it found it and is followed by
\* another such round: the loop ends exactly when every round takes a call
\* off, that is with no more submissions than calls.
C37_NoMoreSubmissionsThanCalls ==
    Len(issued) <= Len(calls)

\* ------------------------------------------------------------------------
\* Claims about MulticallProvider.create
\* ------------------------------------------------------------------------
UnknownAddressFailure ==
    createPc = "failed" /\ createErr = "Unknown multicall address"

\* C5 as stated: when create fails for want of an aggregator address, no
\* request has been issued to the provider, whether the chain id was passed
\* in the options or had to be determined.
C5_NoRequestBeforeFailure ==
    UnknownAddressFailure => netRequests = 0

\* C5 as amended: create never yields an instance without an aggregator
\* address; when it fails for want of one, no explicit address was given, and
\* the requests issued to the provider are none when the options carry a
\* chain id and exactly the one getNetwork lookup when they do not.
C5_NoRequestButChainLookup ==
    /\ createPc = "created" => provider.multicallAddress # ""
    /\ UnknownAddressFailure =>
          /\ options.multicallAddress = ""
          /\ netRequests = IF options.chainId = 0 THEN 1 ELSE 0

C5_Witness ==
    /\ UnknownAddressFailure
    /\ options = [chainId |-> 999, multicallAddress |-> ""]
    /\ multicallAddresses[999] = ""
    /\ netRequests = 0

\* ------------------------------------------------------------------------
\* Claims about BaseContract.retryCall
\* ------------------------------------------------------------------------

\* The error texts that carry the marker 'revert exception' in some casing.
RevertMarked(e) == e \in {RevertText, RevertTextCapitalised}

\* C6: when an invocation of the wrapped call fails with a revert-marked
\* error (in any casing), it is the last invocation, retryCall has rejected
\* with that same error, and no backoff delay was started for it: the only
\* delays are those of the non-revert failures before it, so a revert on the
\* first attempt leaves exactly one invocation and no delay.
C6_RevertNotRetried ==
    \A j \in 1..Len(invocations) :
        RevertMarked(invocations[j].err) =>
            /\ j = Len(invocations)
            /\ retryPc = "rejected"
            /\ retryErr = invocations[j].err
            /\ sleeps = j - 1

C6_Witness ==
    /\ retryPc = "rejected"
    /\ Len(invocations) = 1
    /\ invocations[1].mode = "throw"
    /\ invocations[1].err = RevertTextCapitalised
    /\ retryErr = RevertTextCapitalised
    /\ sleeps = 0

\* C7: retryCall never propagates a failure that is not revert-marked,
\* whether the call threw synchronously or returned a promise that rejects.
C7_TransientNeverPropagated ==
    retryPc = "rejected" => RevertMarked(retryErr)

\* C35: every invocation retryCall makes of the wrapped function after the
\* first is made with the parameters the first was made with.
C35_ReattemptsKeepParams ==
    \A j \in 2..Len(invocations) :
        invocations[j].args = invocations[1].args

\* ------------------------------------------------------------------------
\* Claims about the write wrappers
\* ------------------------------------------------------------------------

\* C8: an invocation of a write wrapper submits to the contract exactly once,
\* and when the submission fails the wrapper has rejected with that failure
\* without a second submission.
C8_WriteSubmittedOnce ==
    /\ writeSubmits <= 1
    /\ writePc # "idle" => writeOp \in WriteOps /\ writeSubmits = 1
    /\ writePc = "rejected" => writeErr \in ErrorTexts

C8_Witness ==
    /\ writePc = "rejected"
    /\ writeOp = <<"ERC1155", "safeBatchTransferFrom">>
    /\ writeErr = TimeoutText
    /\ writeSubmits = 1

\* ------------------------------------------------------------------------
\* Claims about ERC1155.discoverMaximumId
\* ------------------------------------------------------------------------

\* C9: no step lowers the cached maximum id, whatever the arguments of the
\* calls and whatever ids start or stop answering uri reads in between.
C9_CacheNeverDecreases == [][_maximumID' >= _maximumID]_vars

\* A second call has returned after a burn of the cached id: the id it
\* probed failed and the cache still holds it.
C9_Witness ==
    /\ discPc = "returned"
    /\ accessor = NoAccessor
    /\ prevRet = 2
    /\ _maximumID = 2
    /\ 2 \notin uriOk
    /\ probes = <<2>>
    /\ discRet = 2

\* Two calls in a row on a contract without accessor, with the same
\* possibleMaxId and no contract change since the first began.
TwoCallsNoChange ==
    /\ discPc = "returned"
    /\ accessor = NoAccessor
    /\ prevRet # -1
    /\ prevArg = possibleMaxId
    /\ ~dirtyPrev
    /\ ~dirtyCur

\* C10: of two calls in a row with the same possibleMaxId and no contract
\* change, on a contract without accessor, the second returns the cached
\* bound, and it is equal to or greater than what the first returned.
C10_SecondNotBelowFirst ==
    TwoCallsNoChange =>
        /\ discRet = _maximumID
        /\ discRet >= prevRet

C10_Witness ==
    /\ TwoCallsNoChange
    /\ possibleMaxId = MaxApproval
    /\ uriOk = {1, 2}
    /\ prevRet = 2
    /\ discRet = 2
    /\ probes = <<2, 3>>

\* The first call on a contract without accessor has returned, no contract
\* change since it began, the ids answering a uri read being lo..hi with
\* hi below possibleMaxId.
FirstCallOnRange(lo, hi) ==
    /\ discPc = "returned"
    /\ accessor = NoAccessor
    /\ prevRet = -1
    /\ ~dirtyCur
    /\ lo <= hi
    /\ uriOk = lo..hi
    /\ hi < possibleMaxId

Ascending(s) == \A k \in 1..(Len(s) - 1) : s[k] <= s[k + 1]

\* C11 as stated: on a contract without accessor whose uri read succeeds
\* exactly for the ids lo..M, lo in {0, 1} and M < possibleMaxId, the first
\* call returns M, having probed ids in ascending order, the last probe
\* being the failing id M + 1.
C11_StopsAtFirstFailingId ==
    \A lo \in {0, 1}, hi \in Ids :
        FirstCallOnRange(lo, hi) =>
            /\ discRet = hi
            /\ Ascending(probes)
            /\ probes # <<>>
            /\ probes[Len(probes)] = hi + 1

\* C11 amended: under the same conditions the first call returns M, having
\* probed ids in ascending order; its last probe is the failing id M + 1
\* when M + 1 < possibleMaxId, and M when M + 1 = possibleMaxId, id M + 1
\* not being probed then.
C11_ReturnsRangeMaximum ==
    \A lo \in {0, 1}, hi \in Ids :
        FirstCallOnRange(lo, hi) =>
            /\ discRet = hi
            /\ Ascending(probes)
            /\ probes # <<>>
            /\ probes[Len(probes)] =
                  IF hi + 1 < possibleMaxId THEN hi + 1 ELSE hi

C11_Witness ==
    /\ FirstCallOnRange(1, 3)
    /\ possibleMaxId = MaxApproval
    /\ discRet = 3
    /\ probes = <<0, 1, 1, 2, 3, 4>>

\* C34: a discoverMaximumId call whose maximumID() succeeds returns what
\* maximumID() answered, has probed no uri, and has left the cached maximum
\* id as it was when the call began.
C34_AccessorAnswerReturnedUncached ==
    [][/\ discPc' = "awaitMaximumID" =>
              /\ probes' = <<>>
              /\ discPc # "unbound" => _maximumID' = _maximumID
       /\ (/\ discPc = "awaitMaximumID"
           /\ accessor # NoAccessor
           /\ discPc' # "awaitMaximumID") =>
              /\ discPc' = "returned"
              /\ discRet' = accessor
              /\ probes' = <<>>
              /\ _maximumID' = _maximumID]_vars

\* A call answered by maximumID() on a wrapper that had cached another
\* maximum id by probing before the contract got its accessor.
C34_Witness ==
    /\ discPc = "returned"
    /\ accessor # NoAccessor
    /\ discRet = accessor
    /\ probes = <<>>
    /\ _maximumID # 0
    /\ _maximumID # accessor
    /\ prevRet = _maximumID

\* ------------------------------------------------------------------------
\* Claims about ERC1155.balanceOfOwner and ERC1155.ownedTokenIds
\* ------------------------------------------------------------------------

\* The owner's balances of the ids lo..hi, added up.
RECURSIVE TotalBalance(_, _)
TotalBalance(lo, hi) ==
    IF hi < lo THEN 0 ELSE balances[hi] + TotalBalance(lo, hi - 1)

\* C12: balanceOfOwner returns the sum of balanceOf(owner, id) over every id
\* from 1 up to and including the maximum id discoverMaximumId returned,
\* with and without an aggregator.
C12_SumUpToMaximumId ==
    (ownPc = "returned" /\ ownOp = "balanceOfOwner") =>
        ownRet = TotalBalance(1, ownArgs.endId)

\* The ids of lo..hi with a non-zero balance, ascending.
RECURSIVE OwnedIn(_, _)
OwnedIn(lo, hi) ==
    IF hi < lo THEN <<>>
    ELSE OwnedIn(lo, hi - 1) \o (IF balances[hi] # 0 THEN <<hi>> ELSE <<>>)

\* C13: ownedTokenIds(owner, startId, endId) returns exactly the ids of
\* startId..endId, ascending, whose balance is non-zero, with an aggregator
\* as without one.
C13_OwnedIdsOfRange ==
    (ownPc = "returned" /\ ownOp = "ownedTokenIds") =>
        results = OwnedIn(ownArgs.startId, ownArgs.endId)

\* C36: on the aggregator path ownedTokenIds ends its loop over the answer.
\* The loop pushes an id for every non-zero element it examines, and an id
\* it has pushed is examined in turn; of the ids it can push only id 0
\* (startId 0, position 0) pushes nothing more.  So the loop ends exactly
\* when it goes at most one element past the aggregator's answer, the
\* pushed id 0, and has then reached the end of the array.
C36_ScanEndsWithAnswer ==
    (ownPc = "forResponse" /\ scanI > Len(ownCalls)) =>
        scanI = Len(response)

\* ------------------------------------------------------------------------
\* Claims about ERC777.balanceOfBatch
\* ------------------------------------------------------------------------

\* C14: balanceOfBatch(owners) returns a sequence as long as owners whose
\* entry i is owners[i] with the balance of owners[i], whatever owners are
\* listed twice and whatever balances coincide, with an aggregator as
\* without one (so both paths return the same sequence).
C14_PairedByPosition ==
    batchPc = "returned" =>
        /\ Len(batchResults) = Len(owners)
        /\ \A i \in 1..Len(owners) :
              /\ batchResults[i].owner = owners[i]
              /\ batchResults[i].balance = tokenBalances[owners[i]]

\* Without an aggregator, an owner listed twice around another owner whose
\* balance differs.
C14_Witness ==
    /\ batchPc = "returned"
    /\ ~erc777Multicall
    /\ owners = <<"0xB", "0xA", "0xB">>
    /\ tokenBalances["0xA"] = 2
    /\ tokenBalances["0xB"] = 1
    /\ batchResults = << [owner |-> "0xB", balance |-> 1],
                          [owner |-> "0xA", balance |-> 2],
                          [owner |-> "0xB", balance |-> 1] >>

\* ------------------------------------------------------------------------
\* Claims about metadata, metadataBulk and ownedMetadata
\* ------------------------------------------------------------------------

\* A bulk method of the class has returned.
BulkReturned(class) ==
    /\ metaClass = class
    /\ metaPc = "returned"
    /\ metaOp \in {"ownedMetadata", "metadataBulk"}

\* The documents returned are those of the tokens asked for, one each, in
\* ascending order of token id.
SortedByTokenId ==
    /\ Len(metaResult) = Len(tokens)
    /\ { metaResult[k].tokenId : k \in 1..Len(metaResult) } =
          { tokens[k] : k \in 1..Len(tokens) }
    /\ \A k \in 1..(Len(metaResult) - 1) :
          metaResult[k].tokenId <= metaResult[k + 1].tokenId

\* C15: ERC1155.ownedMetadata, with an aggregator (through metadataBulk) and
\* without one, returns its documents sorted by token id ascending, in
\* whatever order the token ids were given and the fetches completed.
C15_ERC1155SortedByTokenId == BulkReturned("ERC1155") => SortedByTokenId

\* metadataBulk of ERC1155 has returned the documents of ids given in
\* descending order.
C15_Witness ==
    /\ BulkReturned("ERC1155")
    /\ tokens = <<3, 2, 1>>
    /\ metaResult = <<Json(1), Json(2), Json(3)>>

\* C16: ERC721.ownedMetadata, with an aggregator (through metadataBulk) and
\* without one, returns its documents sorted by token id ascending, also
\* for an owner whose tokenOfOwnerByIndex enumeration is not ascending.
C16_ERC721SortedByTokenId == BulkReturned("ERC721") => SortedByTokenId

\* C17: metadata(id) fails when its response is not ok, and metadataBulk
\* (of both classes) fails as a whole when the response of any one token is
\* not ok: neither returns then, and a failed call returns no document.
C17_NoPartialSuccess ==
    metaOp \in {"metadata", "metadataBulk"} =>
        /\ metaPc = "returned" =>
              \A k \in 1..Len(tokens) : tokens[k] \in httpOk
        /\ metaPc = "failed" => metaResult = <<>>
        /\ (metaPc = "failed" /\ metaErr # "rejected") =>
              \E k \in 1..Len(tokens) : tokens[k] \notin httpOk

\* metadataBulk has failed over two tokens, every fetch answered, the
\* response of one of them ok.
C17_Witness ==
    /\ metaPc = "failed"
    /\ metaOp = "metadataBulk"
    /\ tokens = <<1, 2>>
    /\ settled = {1, 2}
    /\ httpOk = {1}
    /\ metaErr = "Error fetching metadata"
    /\ metaResult = <<>>

\* The image a document is to come back with, where the claim says so: the
\* gateway followed by the path when the image starts with the ipfs
\* scheme, the image itself when the scheme does not occur in it.
ImageAsClaimed(image, returned) ==
    /\ image[1] = "ipfs://" => returned = <<IPFSGateway>> \o Tail(image)
    /\ (\A k \in 1..Len(image) : image[k] # "ipfs://") => returned = image

\* C18: every document metadata(id) and metadataBulk return has the image
\* 'ipfs://' + X rewritten to the configured gateway + X, an image without
\* 'ipfs://' unchanged, tokenId set to the id asked for and contract set to
\* the address of the bound contract.
C18_ImageTokenIdContract ==
    (metaPc = "returned" /\ metaOp \in {"metadata", "metadataBulk"}) =>
        /\ Len(metaResult) = Len(tokens)
        /\ { metaResult[k].tokenId : k \in 1..Len(metaResult) } =
              { tokens[k] : k \in 1..Len(tokens) }
        /\ metaOp = "metadata" => metaResult[1].tokenId = tokens[1]
        /\ \A k \in 1..Len(metaResult) :
              /\ metaResult[k].contract = ContractAddress[metaClass]
              /\ ImageAsClaimed(DocumentImage(metaResult[k].tokenId),
                                metaResult[k].image)

\* metadata(1) has returned under the gateway 'https://gw/ipfs/'.
C18_Witness ==
    /\ metaPc = "returned"
    /\ metaOp = "metadata"
    /\ IPFSGateway = "https://gw/ipfs/"
    /\ tokens = <<1>>
    /\ metaResult = << [image |-> <<"https://gw/ipfs/", "Qm123">>,
                        tokenId |-> 1,
                        contract |-> ContractAddress[metaClass]] >>

\* ------------------------------------------------------------------------
\* Claims about Web3Controller.load
\* ------------------------------------------------------------------------

\* C19: at most one Web3Controller is ever constructed, also when load
\* calls are pending at the same time, and all load calls that return
\* return the same instance.
C19_OneControllerPerProcess ==
    /\ controllers <= 1
    /\ \A c, d \in Loads :
          (loadPc[c] = "returned" /\ loadPc[d] = "returned") =>
              loadRet[c] = loadRet[d]

\* C20: a load call begun after a load has completed successfully returns
\* the instance that load returned, whatever its options, and makes no
\* controller, no provider and no chain-list fetch.
C20_LaterLoadsReturnSameInstance ==
    \A c \in Loads :
        lateOf[c] # 0 =>
            /\ loadPc[c] = "returned"
            /\ loadRet[c] = lateOf[c]
            /\ madeBy[c] = 0

\* ------------------------------------------------------------------------
\* Claims about the connection of the Web3Controller
\* ------------------------------------------------------------------------

\* C21: when, at a tick of the liveness timer of a connected controller,
\* the signer's getAddress call fails or returns an empty address, the
\* controller is disconnected and has emitted a 'disconnect' event.
C21_UnreachableSignerDisconnects ==
    (/\ last.step = "addressAnswered"
     /\ last.arg \in {"fails", "empty"}
     /\ last.wasConnected) =>
        /\ ~Connected
        /\ emitted = <<"disconnect">>

\* C22: when the wallet emits 'disconnect' while the controller is
\* connected, the controller is disconnected afterwards: no Web3 provider
\* is held and the timer held is destroyed.
C22_WalletDisconnectDisconnects ==
    (/\ last.step = "walletEvent"
     /\ last.arg = "disconnect"
     /\ last.wasConnected) =>
        /\ ~Connected
        /\ ~_web3Provider
        /\ _checkTimer \notin liveTimers

\* C23: when a showWeb3Modal call fails, the controller is disconnected
\* afterwards: no Web3 provider is held and no liveness timer is live.
C23_FailedConnectLeavesDisconnected ==
    (last.step = "showWeb3Modal" /\ last.failed) =>
        /\ ~Connected
        /\ ~_web3Provider
        /\ liveTimers = {}

\* C27: signMessage, switchChain, addChain and watchAsset called on a
\* disconnected controller fail at once, send no request and leave the
\* controller disconnected.
C27_SignerOpsNeedConnection ==
    (last.step \in SignerOps /\ ~last.wasConnected) =>
        /\ last.failed
        /\ last.requests = 0
        /\ ~Connected

\* watchAsset was called on a controller that had been connected and was
\* disconnected again, and has failed.
C27_Witness ==
    /\ last.step = "watchAsset"
    /\ ~last.wasConnected
    /\ last.failed
    /\ _instance
    /\ ~Connected

C38_StaysDisconnectedOnWalletEvents ==
    (/\ last.step = "walletEvent"
     /\ last.arg \in {"connect", "accountsChanged", "chainChanged"}
     /\ ~last.wasConnected
     /\ \A c \in Modals : modalPc[c] = "idle") =>
        /\ ~Connected
        /\ ~_web3Provider

\* C39: however showWeb3Modal and disconnect calls follow and overlap each
\* other, at most one liveness timer is live (created and not destroyed),
\* and none is live while the controller is disconnected.
C39_AtMostOneLiveTimer ==
    /\ Cardinality(liveTimers) <= 1
    /\ ~Connected => liveTimers = {}

\* ------------------------------------------------------------------------
\* Claims about Web3Controller.fetchABI
\* ------------------------------------------------------------------------

\* The chain list has no descriptor for the chain id, or one that names no
\* explorer.
WithoutExplorer(chainId) ==
    \/ chainId \notin DOMAIN ChainExplorers
    \/ ChainExplorers[chainId] = <<>>

C25_CachedUntilForcedRefresh ==
    /\ \A c \in AbiCalls :
          (/\ abiPc[c] # "idle"
           /\ ~abiOptions[c].force_refresh
           /\ abiCachedAtStart[c] # "") =>
              /\ abiPc[c] = "returned"
              /\ abiRet[c] = abiCachedAtStart[c]
              /\ abiRequests[c] = 0
    /\ overwrittenBy # "unforced"

\* C26: a fetchABI call for a chain without descriptor or without explorer,
\* nothing being cached for its pair, has failed at once: it has issued no
\* request, does not wait, and has stored nothing.
C26_NoExplorerFailsAtOnce ==
    \A c \in AbiCalls :
        (/\ abiPc[c] # "idle"
         /\ WithoutExplorer(abiOptions[c].chainId)
         /\ abiCachedAtStart[c] = "") =>
            /\ abiPc[c] = "failed"
            /\ abiRequests[c] = 0
            /\ abiWrites[c] = 0
            /\ ls[abiOptions[c].chainId] = ""

\* A call for chain 3, which has a descriptor without explorers, has failed
\* while a text is cached for chain 1.
C26_Witness ==
    \E c \in AbiCalls :
        /\ abiPc[c] = "failed"
        /\ abiOptions[c].chainId = 3
        /\ abiRequests[c] = 0
        /\ ls[1] # ""

\* ------------------------------------------------------------------------
\* Claims about Web3Controller.getChains
\* ------------------------------------------------------------------------

\* C28: getChains requests the chain list only when the cache is empty or
\* forceRefresh is true: a call without forceRefresh begun on a filled cache
\* issues no request and returns the cached map; a call that requested the
\* list and was answered with one has made the map of it the cache and
\* returned it; a call whose request failed has left the cache as it was.
C28_FetchesOnlyWhenEmptyOrForced ==
    \A c \in ChainsCalls :
        /\ (/\ chainsPc[c] # "idle"
            /\ ~forceRefresh[c]
            /\ chainsCacheAtStart[c] # <<>>) =>
               /\ chainsPc[c] = "returned"
               /\ chainsRequests[c] = 0
               /\ chainsRet[c] = chainsCacheAtStart[c]
        /\ chainsRequests[c] # 0 =>
               forceRefresh[c] \/ chainsCacheAtStart[c] = <<>>
        /\ (chainsLast = c /\ chainsPc[c] = "returned"
                /\ chainsRequests[c] # 0) =>
               /\ chainsJson[c].ok
               /\ ChainListCache = ResultMap(chainsJson[c].json)
               /\ chainsRet[c] = ChainListCache
        /\ (chainsLast = c /\ chainsPc[c] = "failed") =>
               ChainListCache = cacheBefore

\* A call with forceRefresh has replaced a filled cache by another map,
\* while a call without it, begun on the filled cache, has returned.
C28_Witness ==
    \E c, d \in ChainsCalls :
        /\ chainsLast = c
        /\ chainsPc[c] = "returned"
        /\ forceRefresh[c]
        /\ chainsCacheAtStart[c] # <<>>
        /\ ChainListCache # cacheBefore
        /\ chainsPc[d] = "returned"
        /\ ~forceRefresh[d]
        /\ chainsRequests[d] = 0
        /\ chainsRet[d] = cacheBefore

\* C29: no rpc url of a chain in the chain-list cache has the placeholder
\* marker '$' among its parts.
C29_NoTemplateRpcUrlCached ==
    \A id \in DOMAIN ChainListCache :
        \A k \in 1..Len(ChainListCache[id]) :
            \A i \in 1..Len(ChainListCache[id][k]) :
                ChainListCache[id][k][i] # "$"

\* The cache was made from a list that names a template url and a plain url
\* for chain 1, and holds the plain url only.
C29_Witness ==
    \E c \in ChainsCalls :
        /\ chainsPc[c] = "returned"
        /\ chainsJson[c].ok
        /\ chainsJson[c].json # <<>>
        /\ chainsJson[c].json[1].rpc = <<TemplateUrl, PlainUrl>>
        /\ 1 \in DOMAIN ChainListCache
        /\ ChainListCache[1] = <<PlainUrl>>

\* ------------------------------------------------------------------------
\* Claims about ERC721.ownedTokenIds
\* ------------------------------------------------------------------------

\* C30: with an aggregator, ownedTokenIds returns as many ids as
\* balanceOf(owner) says, entry i being tokenOfOwnerByIndex(owner, i),
\* whatever order the batches of index calls were answered in.
C30_IdsInIndexOrder ==
    (erc721Pc = "returned" /\ erc721Multicall) =>
        /\ Len(erc721Ret) = count
        /\ \A i \in 0..(count - 1) :
              erc721Ret[i + 1] = TokenOfOwnerByIndex(i)

\* ownedTokenIds has returned the 21 ids of an owner whose three batches
\* were answered last, first, second.
C30_Witness ==
    /\ erc721Pc = "returned"
    /\ erc721Multicall
    /\ count = 21
    /\ Len(promises) = 3
    /\ settledOrder = <<3, 1, 2>>
    /\ Len(erc721Ret) = 21

====
